---- MODULE Spec2Model ----
(***************************************************************************)
(* A state-machine model of the numerical core of spindle-earth:           *)
(*   src/src/ode/quadrature.js      cumulative trapezoidal quadrature      *)
(*   src/src/ode/integrate.js       fixed-step ODE trajectory integration  *)
(*   src/src/surfaces/buildGeometry.js   parametric-surface tessellation   *)
(*                                                                         *)
(* JavaScript numbers are modelled as exact rationals <<n, d>> in lowest   *)
(* terms with d > 0; the non-finite results of a division by zero are      *)
(* <<1, 0>> (Infinity), <<-1, 0>> (-Infinity) and <<0, 0>> (NaN).  Equality*)
(* of numbers in the model is therefore equality up to IEEE double        *)
(* rounding in the program.  Storage into a Float32Array is modelled by    *)
(* its rounding (ToFloat32).                                               *)
(*                                                                         *)
(* The model also covers the objects the demos build on that core:         *)
(*   src/src/curves/NumericalCurve.js    the profile curve                 *)
(*   src/src/surfaces/SurfaceMesh.js     the mesh and its rebuild          *)
(*   src/src/ui/Slider.js                the slider and its input listener *)
(*   src/demos/hyperbolic-slider/main.js the trumpet solveProfile and setA *)
(*   src/demos/hyperbolic-slider-tiling/main.js   the same with uniforms   *)
(*   src/demos/spindle-eastern-hemi/main.js       the spindle solveProfile *)
(*   src/unnamed/part_003, part_004, part_006     the spindle, the         *)
(*       spindle-slider (ODE) and the pseudosphere demos                   *)
(*                                                                         *)
(* Spec: one call runs per behaviour; pc is "idle" until a Call action     *)
(* starts quadrature (q_...), integrate (i_...) or buildGeometry (g_...);  *)
(* every loop iteration of the callee is one action.                       *)
(* SceneSpec: the operations on one curve, its surface of revolution, one  *)
(* mesh and the sliders, in any order; a build runs through the            *)
(* buildGeometry actions and nothing else runs until it has returned.      *)
(* ProfileSpec: the solveProfile functions of the demos and the quadrature *)
(* or integrate call each makes.                                           *)
(* FairSpec: Spec with weak fairness of the step that advances the call in *)
(* progress (the one thread keeps running the call it has begun).          *)
(* SliderSpec: a page that constructs Sliders and takes their input events.*)
(* DemoSpec: the load of one demo module and the input events of its       *)
(* slider, each running solveProfile, updatePoints and rebuild to the end. *)
(***************************************************************************)
EXTENDS Integers, Sequences, FiniteSets, TLC

\* ------------------------------------------------------------------ bounds

\* Largest subinterval / step count handed to quadrature and integrate.
MaxSteps == 4
\* Smallest (most negative) step count handed to quadrature is -MaxNegSteps.
MaxNegSteps == 2
\* Interval endpoints handed to quadrature are the integers -1 .. MaxT.
MaxT == 2
\* Thresholds c of the stop predicates t >= c handed to integrate are 1 .. MaxStopT.
MaxStopT == 3
\* Largest explicit uSegments / vSegments handed to buildGeometry.
MaxSeg == 3
\* Most BufferGeometry objects one mesh comes to hold (the constructor's
\* two and the rebuilds').
MaxGeometries == 4
\* Most Slider objects constructed.
MaxSliders == 1
\* Most Slider objects constructed on a page that holds sliders only, and
\* most input events fired on them.
MaxSliderObjects == 2
MaxInputs == 2
\* Math.asinh, Math.sinh, Math.cosh and Math.sqrt are held to
\* 1/ProfileGrid: argument and result rounded down to that grid.
ProfileGrid == 16

\* ------------------------------------------------------- rational numbers

Abs(x) == IF x < 0 THEN -x ELSE x

RECURSIVE GCD(_, _)
GCD(a, b) == IF b = 0 THEN a ELSE GCD(b, a % b)

\* The rational n/d (d # 0) in lowest terms with a positive denominator.
Norm(n, d) ==
    LET g == GCD(Abs(n), Abs(d))
        s == IF d < 0 THEN -1 ELSE 1
    IN  <<(s * n) \div g, (s * d) \div g>>

R(k) == <<k, 1>>
Zero == R(0)
One == R(1)
Half == <<1, 2>>
Infinity == <<1, 0>>
NegInfinity == <<-1, 0>>
NaN == <<0, 0>>
\* An array slot that was allocated and never written.
Empty == <<0, -1>>

IsFinite(x) == x[2] > 0

RAdd(x, y) ==
    LET g == GCD(x[2], y[2])
    IN  Norm(x[1] * (y[2] \div g) + y[1] * (x[2] \div g), (x[2] \div g) * y[2])
RNeg(x) == <<-x[1], x[2]>>
RSub(x, y) == RAdd(x, RNeg(y))
RMul(x, y) ==
    LET g1 == GCD(Abs(x[1]), y[2])
        g2 == GCD(Abs(y[1]), x[2])
    IN  Norm((x[1] \div g1) * (y[1] \div g2), (x[2] \div g2) * (y[2] \div g1))
RLt(x, y) == x[1] * y[2] < y[1] * x[2]
RLe(x, y) == x[1] * y[2] <= y[1] * x[2]

\* JavaScript's x / y on finite operands: a zero divisor gives NaN or an
\* infinity, never a fault.
JSDiv(x, y) ==
    IF y[1] = 0
    THEN IF x[1] = 0 THEN NaN ELSE IF x[1] > 0 THEN Infinity ELSE NegInfinity
    ELSE RMul(x, Norm(y[2], y[1]))

\* JavaScript's +, - and * on operands that may be NaN or an infinity
\* (IEEE 754; the sign of zero is not kept).
JSAdd(x, y) ==
    IF IsFinite(x) /\ IsFinite(y) THEN RAdd(x, y)
    ELSE IF x = NaN \/ y = NaN THEN NaN
    ELSE IF IsFinite(x) THEN y
    ELSE IF IsFinite(y) THEN x
    ELSE IF x = y THEN x ELSE NaN
JSSub(x, y) == JSAdd(x, RNeg(y))
JSMul(x, y) ==
    IF IsFinite(x) /\ IsFinite(y) THEN RMul(x, y)
    ELSE IF x = NaN \/ y = NaN THEN NaN
    ELSE IF x[1] = 0 \/ y[1] = 0 THEN NaN
    ELSE IF (x[1] > 0) = (y[1] > 0) THEN Infinity ELSE NegInfinity

\* --------------------------------------------------------------- state

VARIABLES
    pc,        \* position of the one call in progress
    qf,        \* quadrature: the integrand f (by name)
    qtMin,     \* quadrature: tMin
    qtMax,     \* quadrature: tMax
    qsteps,    \* quadrature: steps
    qdt,       \* quadrature: const dt
    ts,        \* quadrature: the array ts
    values,    \* quadrature: the array values
    prev,      \* quadrature: let prev
    qi,        \* quadrature: loop index i
    qiters,    \* quadrature: loop bodies executed so far
    iopts,     \* integrate: the options object
    states,    \* integrate: the array states
    times,     \* integrate: the array times
    istate,    \* integrate: let state
    it,        \* integrate: let t
    ii,        \* integrate: loop index i
    stepCalls, \* integrate: the stepper invocations made so far, in order
    stopCalls, \* integrate: the stop invocations made so far, in order
    gsurface,  \* buildGeometry: the surface argument
    goptions,  \* buildGeometry: the options argument
    gdom,      \* buildGeometry: uMin, uMax, vMin, vMax, uSegments, vSegments
    positions, \* buildGeometry: the array positions
    normals,   \* buildGeometry: the array normals
    uvs,       \* buildGeometry: the array uvs
    indices,   \* buildGeometry: the array indices
    gi,        \* buildGeometry: loop index i of the loop in progress
    gj,        \* buildGeometry: loop index j of the loop in progress
    evalCalls, \* buildGeometry: the surface.evaluate(u, v) calls made, in order
    normalCalls, \* buildGeometry: the surface.computeNormal(u, v) calls made
    geometry,  \* buildGeometry: the BufferGeometry returned
    stage,     \* scene: "none", "curve" (profileCurve made), "constructing", "mesh"
    profileCurve, \* scene: the NumericalCurve object
    curvesCreated, \* scene: the number of NumericalCurve objects constructed
    mesh,      \* scene: the SurfaceMesh object; geometry is the one it holds
    geometries, \* scene: the BufferGeometry objects the mesh has held, by id
    buffers,   \* scene: the arrays of the geometry the mesh holds
    builds,    \* scene: the inputs and the output of every completed build
    last,      \* scene: the last operation, its argument and its outcome
    stylesInjected, \* Slider.js: the module-level flag
    styleElements,  \* Slider.js: the style elements appended to the document
    sliders,   \* Slider.js: the Slider objects constructed
    pa,        \* solveProfile: the argument a (0 when no call is running)
    profile,   \* solveProfile: the points returned
    demo,      \* demo module: which main.js is loaded ("none" before)
    loaded,    \* demo module: its top-level code has run to the end
    uniforms,  \* demo module: the uniforms object the mesh material shares
    aConst,    \* spindle-eastern-hemi/main.js line 144: const a
    sliderEls, \* the slider elements: input.value and labelEl.textContent
    domLog     \* the label writes and onChange calls of input events, in order

quadVars == <<qf, qtMin, qtMax, qsteps, qdt, ts, values, prev, qi, qiters>>
intVars == <<iopts, states, times, istate, it, ii, stepCalls, stopCalls>>
geomVars == <<gsurface, goptions, gdom, positions, normals, uvs, indices,
              gi, gj, evalCalls, normalCalls, geometry>>
sceneVars == <<stage, profileCurve, curvesCreated, mesh, geometries, buffers,
               builds, last, stylesInjected, styleElements, sliders>>
demoVars == <<demo, loaded, uniforms, aConst, sliderEls, domLog>>
profVars == <<pa, profile, demoVars>>
vars == <<pc, quadVars, intVars, geomVars, sceneVars, profVars>>

\* ------------------------------------------------------------ quadrature

\* The integrands a caller passes as f.
Integrands == {"one", "id", "negone", "sq"}

\* A number rounded down to the grid.
Fixed(x) == Norm((x[1] * ProfileGrid) \div x[2], ProfileGrid)

\* Math.sinh and Math.cosh: the series to the third and fourth power at
\* the grid point below s.
SinhSeries(s) == RAdd(s, RMul(<<1, 6>>, RMul(s, RMul(s, s))))
Sinh(s) == Fixed(SinhSeries(Fixed(s)))
Cosh(s) ==
    LET g == Fixed(s)
        g2 == RMul(g, g)
    IN  Fixed(RAdd(One, RAdd(RMul(Half, g2), RMul(<<1, 24>>, RMul(g2, g2)))))

\* Math.asinh(x), x >= 0: the largest grid point whose sinh is at most x.
\* Math.asinh(Infinity) is Infinity.
Asinh(x) ==
    IF ~IsFinite(x) THEN x
    ELSE LET ks == {k \in 0..(4 * ProfileGrid) :
                       RLe(SinhSeries(<<k, ProfileGrid>>), x)}
         IN  Norm(CHOOSE k \in ks : \A j \in ks : j <= k, ProfileGrid)

\* Math.sqrt(x), 0 <= x <= 4: the largest grid point whose square is at
\* most x.
Sqrt(x) ==
    LET ks == {k \in 0..(2 * ProfileGrid) :
                  RLe(RMul(<<k, ProfileGrid>>, <<k, ProfileGrid>>), x)}
    IN  Norm(CHOOSE k \in ks : \A j \in ks : j <= k, ProfileGrid)

\* Math.sqrt of any number: NaN below zero.
MathSqrt(x) == IF RLt(x, Zero) THEN NaN ELSE Sqrt(x)

\* Math.PI on the grid.
MathPI == <<25, 8>>
HalfPI == RMul(Half, MathPI)

\* Math.cos and Math.sin on [0, pi]: the series to the fourth and fifth
\* power at the grid point below s, folded at pi/2.
CosSeries(g) ==
    LET g2 == RMul(g, g)
    IN  RAdd(RSub(One, RMul(Half, g2)), RMul(<<1, 24>>, RMul(g2, g2)))
SinSeries(g) ==
    LET g2 == RMul(g, g)
        g3 == RMul(g2, g)
    IN  RAdd(RSub(g, RMul(<<1, 6>>, g3)), RMul(<<1, 120>>, RMul(g3, g2)))
Cos(s) ==
    LET g == Fixed(s)
    IN  IF RLe(g, HalfPI) THEN Fixed(CosSeries(g))
        ELSE RNeg(Fixed(CosSeries(RSub(MathPI, g))))
Sin(s) ==
    LET g == Fixed(s)
    IN  IF RLe(g, HalfPI) THEN Fixed(SinSeries(g))
        ELSE Fixed(SinSeries(RSub(MathPI, g)))

\* Math.acos(x), 0 < x <= 1: the largest grid point of [0, pi/2] whose
\* cosine is at least x.
Acos(x) ==
    LET ks == {k \in 0..(2 * ProfileGrid) :
                  /\ RLe(<<k, ProfileGrid>>, HalfPI)
                  /\ RLe(x, Cos(<<k, ProfileGrid>>))}
    IN  Norm(CHOOSE k \in ks : \A j \in ks : j <= k, ProfileGrid)

\* Math.acosh(x), 1 <= x: the largest grid point whose cosh is at most x.
Acosh(x) ==
    LET ks == {k \in 0..(3 * ProfileGrid) : RLe(Cosh(<<k, ProfileGrid>>), x)}
    IN  Norm(CHOOSE k \in ks : \A j \in ks : j <= k, ProfileGrid)

\* Math.max(0, x).
MathMax0Missing(x) == x
MathMax0(x) == IF RLt(x, Zero) THEN Zero ELSE x

\* hyperbolic-slider/main.js line 62:
\* s => Math.sqrt(Math.max(0, 1 - a * a * Math.sinh(s) ** 2)).
Trumpet(a, s) ==
    LET x == RSub(One, RMul(RMul(a, a), RMul(Sinh(s), Sinh(s))))
    IN  Sqrt(MathMax0(x))

\* The integrands of the profile solvers, by the name of the surface:
\*   "trumpet"       hyperbolic-slider and hyperbolic-slider-tiling
\*   "spindle"       spindle-eastern-hemi
\*   "spindleBasic"  the spindle demo with the fixed a = 0.5
\*   "pseudosphere"  the pseudosphere demo
ProfileIntegrands == {"trumpet", "spindle", "spindleBasic", "pseudosphere"}

\* The radicand 1 - a^2 g(s)^2 of the height derivative, g being sinh,
\* cos or cosh.
Radicand(f, a, s) ==
    LET g == CASE f = "trumpet" -> Sinh(s)
               [] f \in {"spindle", "spindleBasic"} -> Cos(s)
               [] f = "pseudosphere" -> Cosh(s)
    IN  RSub(One, RMul(RMul(a, a), RMul(g, g)))

\* What the integrand hands to Math.sqrt: Math.max(0, radicand) in
\* hyperbolic-slider/main.js line 62, spindle-eastern-hemi/main.js line 74
\* and the pseudosphere demo line 61; the bare radicand in the spindle demo
\* line 65.
IntegrandClamps(f) == f # "spindleBasic"
SqrtArgument(f, a, s) ==
    IF IntegrandClamps(f) THEN MathMax0(Radicand(f, a, s))
    ELSE Radicand(f, a, s)

ApplyF(f, t) ==
    CASE f = "one" -> One
      [] f = "id" -> t
      [] f = "negone" -> RNeg(One)
      [] f = "sq" -> RMul(t, t)
      [] f = "trumpet" -> Trumpet(pa, t)
      [] f \in {"spindle", "spindleBasic", "pseudosphere"} ->
            MathSqrt(SqrtArgument(f, pa, t))

\* new Array(n): n empty slots, or a RangeError when n is no valid length.
ArrayThrows(n) == n < 0
NewArray(n) == [k \in 1..n |-> Empty]

\* arr[idx] = v on a JavaScript array (idx is 0-based): writing at or past
\* the end extends the array.
ArraySet(arr, idx, v) ==
    [k \in 1..(IF idx + 1 > Len(arr) THEN idx + 1 ELSE Len(arr)) |->
        IF k = idx + 1 THEN v ELSE IF k <= Len(arr) THEN arr[k] ELSE Empty]

\* arr[idx] read (0-based).
At(arr, idx) == arr[idx + 1]

\* quadrature.js line 14: const dt = (tMax - tMin) / steps.
QuadDtOffByOne(tMin, tMax, steps) == JSDiv(RSub(tMax, tMin), R(steps + 1))
QuadDt(tMin, tMax, steps) == JSDiv(RSub(tMax, tMin), R(steps))

\* quadrature.js line 23: ts[i] = tMin + i * dt.
QuadTNoIndex(tMin, i, dt) == RAdd(tMin, dt)
QuadT(tMin, i, dt) == RAdd(tMin, RMul(R(i), dt))

QuadIdle ==
    /\ qf = "one" /\ qtMin = Zero /\ qtMax = Zero /\ qsteps = 0
    /\ qdt = Zero /\ ts = <<>> /\ values = <<>> /\ prev = Zero
    /\ qi = 0 /\ qiters = 0

\* quadrature.js lines 14-21: everything before the loop.
CallQuadrature(f, tMin, tMax, steps) ==
    /\ pc = "idle"
    /\ qf' = f /\ qtMin' = tMin /\ qtMax' = tMax /\ qsteps' = steps
    /\ qdt' = QuadDt(tMin, tMax, steps)
    /\ qiters' = 0
    /\ IF ArrayThrows(steps + 1)
       THEN /\ pc' = "q_threw"
            /\ UNCHANGED <<ts, values, prev, qi>>
       ELSE /\ pc' = "q_loop"
            /\ ts' = ArraySet(NewArray(steps + 1), 0, tMin)
            /\ values' = ArraySet(NewArray(steps + 1), 0, Zero)
            /\ prev' = ApplyF(f, tMin)
            /\ qi' = 1
    /\ UNCHANGED <<intVars, geomVars, sceneVars, profVars>>

\* quadrature.js line 25: values[i - 1] + 0.5 * dt * (prev + curr).
QuadAccumulateNoHalf(vprev, dt, p, c) == RAdd(vprev, RMul(dt, RAdd(p, c)))
QuadAccumulateMinus(vprev, dt, p, c) == RSub(vprev, RMul(RMul(Half, dt), RAdd(p, c)))
QuadAccumulate(vprev, dt, p, c) == RAdd(vprev, RMul(RMul(Half, dt), RAdd(p, c)))

\* quadrature.js lines 22-27: one iteration of the loop.
QuadLoop ==
    /\ pc = "q_loop"
    /\ qi <= qsteps
    /\ LET ti == QuadT(qtMin, qi, qdt)
           curr == ApplyF(qf, ti)
       IN  /\ ts' = ArraySet(ts, qi, ti)
           /\ values' = ArraySet(values, qi,
                                 QuadAccumulate(At(values, qi - 1), qdt, prev, curr))
           /\ prev' = curr
    /\ qi' = qi + 1
    /\ qiters' = qiters + 1
    /\ UNCHANGED <<pc, qf, qtMin, qtMax, qsteps, qdt, intVars, geomVars, sceneVars, profVars>>

\* quadrature.js line 29: the loop condition fails and { ts, values } returns.
QuadReturn ==
    /\ pc = "q_loop"
    /\ qi > qsteps
    /\ pc' = "q_done"
    /\ UNCHANGED <<quadVars, intVars, geomVars, sceneVars, profVars>>

QuadEndpoints == {R(k) : k \in -1..MaxT}
QuadStepCounts == (-MaxNegSteps)..MaxSteps

\* ------------------------------------------------------------ solveProfile
\* The trumpet profile of the hyperbolic-slider demos: r(s) = a cosh(s),
\* h(s) the quadrature of sqrt(1 - a^2 sinh^2(s)) on [0, asinh(1/a)].

\* hyperbolic-slider/main.js line 63: the subintervals given to quadrature.
ProfileSteps == 200

NoUniforms == [a |-> Empty, uA |-> Empty, uSMax |-> Empty]

ProfIdle ==
    /\ pa = Zero /\ profile = <<>>
    /\ demo = "none" /\ loaded = FALSE
    /\ uniforms = NoUniforms
    /\ aConst = Empty
    /\ sliderEls = <<>>
    /\ domLog = <<>>

\* main.js lines 59-64: sMax and the call of quadrature, up to its loop.
CallSolveProfile(a) ==
    /\ pc = "idle"
    /\ pa' = a
    /\ qf' = "trumpet" /\ qtMin' = Zero /\ qtMax' = Asinh(JSDiv(One, a))
    /\ qsteps' = ProfileSteps
    /\ qdt' = QuadDt(Zero, Asinh(JSDiv(One, a)), ProfileSteps)
    /\ qiters' = 0
    /\ pc' = "q_loop"
    /\ ts' = ArraySet(NewArray(ProfileSteps + 1), 0, Zero)
    /\ values' = ArraySet(NewArray(ProfileSteps + 1), 0, Zero)
    /\ prev' = Trumpet(a, Zero)
    /\ qi' = 1
    /\ UNCHANGED <<intVars, geomVars, sceneVars, profile>>

\* main.js lines 66-68: ts.map((s, i) => new Vector3(a * cosh(s), hValues[i], 0)).
TopHalf(a, tsArray, hValues) ==
    [i \in 1..Len(tsArray) |->
        [x |-> RMul(a, Cosh(tsArray[i])), y |-> hValues[i], z |-> Zero]]

\* main.js line 71: topHalf.slice(1).
SliceNone(array) == array
Slice1(array) == SubSeq(array, 2, Len(array))

\* main.js lines 71-73: the mirror image, last sample first.
BottomHalf(topHalf) ==
    LET rest == Slice1(topHalf)
        reversed == [k \in 1..Len(rest) |-> rest[Len(rest) + 1 - k]]
    IN  [k \in 1..Len(rest) |->
            [x |-> reversed[k].x, y |-> RNeg(reversed[k].y), z |-> Zero]]

\* main.js lines 66-75: quadrature has returned; the points are assembled
\* and returned.
SolveProfileReturn ==
    /\ pc = "q_done"
    /\ qf = "trumpet"
    /\ pc' = "p_done"
    /\ profile' = BottomHalf(TopHalf(pa, ts, values)) \o TopHalf(pa, ts, values)
    /\ UNCHANGED <<quadVars, intVars, geomVars, sceneVars, pa, demoVars>>

\* The slider's range is [0.1, 2]; it starts at 0.5.
ProfileAs == {Half, One, R(2)}

\* The other profile solvers that call quadrature.

\* spindle-eastern-hemi/main.js line 75 (and the spindle demo line 66): the
\* subintervals given to quadrature.
SpindleSteps == 400

\* spindle-eastern-hemi/main.js lines 70-71:
\* sMin = a <= 1 ? 0 : Math.acos(1 / a), sMax = Math.PI - sMin.
SpindleSMin(a) == IF RLe(a, One) THEN Zero ELSE Acos(JSDiv(One, a))
SpindleSMax(a) == RSub(MathPI, SpindleSMin(a))

\* A solver's call quadrature(f, tMin, tMax, steps) for the parameter a, up
\* to the loop (quadrature.js lines 14-21).
SolverCallsQuadrature(f, a, tMin, tMax, steps) ==
    /\ pc = "idle"
    /\ pa' = a
    /\ qf' = f /\ qtMin' = tMin /\ qtMax' = tMax /\ qsteps' = steps
    /\ qdt' = QuadDt(tMin, tMax, steps)
    /\ qiters' = 0
    /\ pc' = "q_loop"
    /\ ts' = ArraySet(NewArray(steps + 1), 0, tMin)
    /\ values' = ArraySet(NewArray(steps + 1), 0, Zero)
    /\ prev' = MathSqrt(SqrtArgument(f, a, tMin))
    /\ qi' = 1
    /\ UNCHANGED <<intVars, geomVars, sceneVars, profile>>

\* spindle-eastern-hemi/main.js lines 69-76: solveProfile(a) up to the
\* loop of quadrature.
CallSpindleProfile(a) ==
    SolverCallsQuadrature("spindle", a, SpindleSMin(a), SpindleSMax(a), SpindleSteps)

\* The spindle demo lines 59-67: const a = 0.5 and its quadrature over
\* [0, Math.PI].
CallSpindleBasic ==
    SolverCallsQuadrature("spindleBasic", Half, Zero, MathPI, SpindleSteps)

\* The pseudosphere demo lines 57-63: sMax = Math.acosh(1 / a) and the
\* quadrature over [0, sMax] in 200 subintervals.
CallPseudoProfile(a) ==
    SolverCallsQuadrature("pseudosphere", a, Zero, Acosh(JSDiv(One, a)), ProfileSteps)

\* The points a quadrature-based solver makes of ts and hValues:
\*   spindle-eastern-hemi/main.js lines 78-81
\*     (Math.max(0, a sin s), h - totalHeight / 2, 0)
\*   the spindle demo lines 69-72   (a sin s, h - totalHeight / 2, 0)
\*   the pseudosphere demo lines 66-72
\*     (a sinh s, totalHeight - h, 0), then y -= totalHeight / 2
SolverPoints(f, a, tsArray, hValues) ==
    LET totalHeight == hValues[Len(hValues)]
        half == RMul(Half, totalHeight)
    IN  [i \in 1..Len(tsArray) |->
            CASE f = "spindle" ->
                   [x |-> MathMax0(RMul(a, Sin(tsArray[i]))),
                    y |-> RSub(hValues[i], half), z |-> Zero]
              [] f = "spindleBasic" ->
                   [x |-> RMul(a, Sin(tsArray[i])),
                    y |-> RSub(hValues[i], half), z |-> Zero]
              [] f = "pseudosphere" ->
                   [x |-> RMul(a, Sinh(tsArray[i])),
                    y |-> RSub(RSub(totalHeight, hValues[i]), half), z |-> Zero]]

\* quadrature has returned to one of these solvers; the points are
\* assembled and returned.
SolverReturn ==
    /\ pc = "q_done"
    /\ qf \in {"spindle", "spindleBasic", "pseudosphere"}
    /\ pc' = "p_done"
    /\ profile' = SolverPoints(qf, pa, ts, values)
    /\ UNCHANGED <<quadVars, intVars, geomVars, sceneVars, pa, demoVars>>

\* The parameters the spindle solvers are called with (spindle, sphere,
\* two barrels) and the pseudosphere solver (a < 1).
SpindleAs == {Half, One, <<3, 2>>, R(2)}
PseudoAs == {<<1, 4>>, Half}

\* ------------------------------------------------------------- integrate

\* State vectors are sequences of numbers.
VAdd(a, b) == [k \in 1..Len(a) |-> RAdd(a[k], b[k])]
VScale(c, a) == [k \in 1..Len(a) |-> RMul(c, a[k])]

\* The derivative functions a caller passes as options.deriv:
\*   "harmonic"  ([r, rp]) => [rp, -r]       (the example of integrate.js)
\*   "ramp"      ([x, y], t) => [1, t]
\*   "spindle"   ([r, rp]) => [rp, -r, Math.sqrt(Math.max(0, 1 - rp * rp))]
\*               (the spindle-slider demo, state = [r, r', y])
Derivs == {"harmonic", "ramp"}

\* What the derivative of the spindle-slider demo hands to Math.sqrt.
OdeSqrtArgument(state) == MathMax0(RSub(One, RMul(state[2], state[2])))

ApplyDeriv(deriv, state, t) ==
    CASE deriv = "harmonic" -> <<state[2], RNeg(state[1])>>
      [] deriv = "ramp" -> <<One, t>>
      [] deriv = "spindle" ->
            <<state[2], RNeg(state[1]), MathSqrt(OdeSqrtArgument(state))>>

\* steppers.js (imported on integrate.js line 7): one classical
\* Runge-Kutta-4 step, derivative sampled at t, twice at t + dt/2 and at
\* t + dt, combined with weights 1, 2, 2, 1 scaled by dt/6.
rk4(deriv, state, t, dt) ==
    LET h2 == RMul(Half, dt)
        k1 == ApplyDeriv(deriv, state, t)
        k2 == ApplyDeriv(deriv, VAdd(state, VScale(h2, k1)), RAdd(t, h2))
        k3 == ApplyDeriv(deriv, VAdd(state, VScale(h2, k2)), RAdd(t, h2))
        k4 == ApplyDeriv(deriv, VAdd(state, VScale(dt, k3)), RAdd(t, dt))
        sum == VAdd(VAdd(k1, VScale(R(2), k2)), VAdd(VScale(R(2), k3), k4))
    IN  VAdd(state, VScale(RMul(dt, <<1, 6>>), sum))

\* A stepper a caller may pass as options.stepper: one forward-Euler step.
euler(deriv, state, t, dt) == VAdd(state, VScale(dt, ApplyDeriv(deriv, state, t)))

\* One Runge-Kutta-4 step of the spindle system r'' = -r, y' = h'(r') from
\* [0, a, 0] with dt = pi/400, on the grid: the step follows the rotation
\* (r, r') = (a sin t, a cos t) far more closely than the grid resolves, and
\* the height advances by dt times the derivative at the middle of the step.
rk4Spindle(state, t, dt) ==
    LET tm == RAdd(t, RMul(Half, dt))
        t1 == RAdd(t, dt)
        mid == <<RMul(pa, Sin(tm)), RMul(pa, Cos(tm)), state[3]>>
    IN  <<RMul(pa, Sin(t1)), RMul(pa, Cos(t1)),
          RAdd(state[3], RMul(dt, ApplyDeriv("spindle", mid, tm)[3]))>>

\* Calling the stepper function named fn.
ApplyStepper(fn, deriv, state, t, dt) ==
    CASE fn = "rk4" /\ deriv = "spindle" -> rk4Spindle(state, t, dt)
      [] fn = "rk4" /\ deriv # "spindle" -> rk4(deriv, state, t, dt)
      [] fn = "euler" -> euler(deriv, state, t, dt)

\* integrate.js line 32: const step = options.stepper ?? rk4.
StepperAlwaysRk4(stepper) == "rk4"
StepperUsed(stepper) == IF stepper \in {"undefined", "null"} THEN "rk4" ELSE stepper

\* The predicates a caller passes as options.stop, as <<kind, c>>:
\*   "undefined"  no predicate given
\*   "never"      () => false
\*   "tGe"        (state, t) => t >= c
\*   "rNeg"       (state, t) => state[0] < 0
ApplyStop(stop, state, t) ==
    CASE stop[1] = "never" -> FALSE
      [] stop[1] = "tGe" -> RLe(R(stop[2]), t)
      [] stop[1] = "rNeg" -> RLt(state[1], Zero)

\* integrate.js line 46: the value of stop?.(state, t) as a condition; an
\* absent stop is not called and the condition is falsy.
StopIgnored(stop, state, t) == FALSE
StopFires(stop, state, t) ==
    IF stop[1] = "undefined" THEN FALSE ELSE ApplyStop(stop, state, t)

\* integrate.js line 46: the arguments of stop?.(state, t); by then state and
\* t have been reassigned (lines 41-42) and pushed (lines 43-44).
StopArgumentsBeforeStep(state, t, newState, newT) == <<state, t>>
StopArguments(state, t, newState, newT) == <<newState, newT>>

\* integrate.js line 42: t += dt.
AdvanceTSetsDt(t, dt) == dt
AdvanceT(t, dt) == RAdd(t, dt)

IntIdle ==
    /\ iopts = [deriv |-> "ramp", initial |-> <<Zero, Zero>>, dt |-> Zero,
                steps |-> 0, stepper |-> "undefined", stop |-> <<"undefined", 0>>]
    /\ states = <<>> /\ times = <<>> /\ istate = <<>> /\ it = Zero /\ ii = 0
    /\ stepCalls = <<>> /\ stopCalls = <<>>

\* integrate.js lines 30-40: destructuring and the initial trajectory.
StartIntegrate(options) ==
    /\ iopts' = options
    /\ states' = <<options.initial>>
    /\ times' = <<Zero>>
    /\ istate' = options.initial
    /\ it' = Zero
    /\ ii' = 0
    /\ stepCalls' = <<>> /\ stopCalls' = <<>>
    /\ pc' = "i_loop"

\* integrate(options) called on its own.
CallIntegrate(options) ==
    /\ pc = "idle"
    /\ StartIntegrate(options)
    /\ UNCHANGED <<quadVars, geomVars, sceneVars, profVars>>

\* integrate.js lines 40-47: one iteration of the loop, ending either at
\* i++ or at the break.
IntLoop ==
    /\ pc = "i_loop"
    /\ ii < iopts.steps
    /\ LET fn == StepperUsed(iopts.stepper)
           newState == ApplyStepper(fn, iopts.deriv, istate, it, iopts.dt)
           newT == AdvanceT(it, iopts.dt)
           args == StopArguments(istate, it, newState, newT)
       IN  /\ stepCalls' = Append(stepCalls,
                   [fn |-> fn, deriv |-> iopts.deriv, state |-> istate,
                    t |-> it, dt |-> iopts.dt])
           /\ istate' = newState
           /\ it' = newT
           /\ states' = Append(states, newState)
           /\ times' = Append(times, newT)
           /\ stopCalls' = IF iopts.stop[1] = "undefined" THEN stopCalls
                            ELSE Append(stopCalls,
                                   [state |-> args[1], t |-> args[2],
                                    result |-> ApplyStop(iopts.stop, args[1], args[2])])
           /\ IF StopFires(iopts.stop, args[1], args[2])
              THEN pc' = "i_done" /\ ii' = ii
              ELSE pc' = pc /\ ii' = ii + 1
    /\ UNCHANGED <<iopts, quadVars, geomVars, sceneVars, profVars>>

\* integrate.js line 49: the loop condition fails and { states, times }
\* returns.
IntReturn ==
    /\ pc = "i_loop"
    /\ ii >= iopts.steps
    /\ pc' = "i_done"
    /\ UNCHANGED <<intVars, quadVars, geomVars, sceneVars, profVars>>

IntInitials == {<<Zero, One>>, <<One, Zero>>}
IntDts == {One, R(2), Half}
IntStepCounts == 0..MaxSteps
IntSteppers == {"undefined", "null", "euler"}
IntStops == {<<"undefined", 0>>, <<"never", 0>>, <<"rNeg", 0>>}
                \cup {<<"tGe", c>> : c \in 1..MaxStopT}
\* The options objects handed to integrate.  The oscillator is run with the
\* integer time steps only, which keeps its rational trajectory within the
\* range of the model checker's integers.
IntOptions ==
    {o \in [deriv : Derivs, initial : IntInitials, dt : IntDts,
            steps : IntStepCounts, stepper : IntSteppers, stop : IntStops] :
        o.deriv = "harmonic" => o.dt # Half}

\* The spindle-slider demo line 110: steps: 400.
OdeSteps == 400

\* The spindle-slider demo lines 106-111: the options solveProfile(a) hands
\* to integrate.
OdeOptions(a) ==
    [deriv |-> "spindle", initial |-> <<Zero, a, Zero>>,
     dt |-> JSDiv(MathPI, R(OdeSteps)), steps |-> OdeSteps,
     stepper |-> "undefined", stop |-> <<"undefined", 0>>]

\* The spindle-slider demo lines 105-111: solveProfile(a) up to the loop of
\* integrate.
CallOdeProfile(a) ==
    /\ pc = "idle"
    /\ pa' = a
    /\ StartIntegrate(OdeOptions(a))
    /\ UNCHANGED <<quadVars, geomVars, sceneVars, profile>>

\* The spindle-slider demo lines 112-115:
\* states.map(([r, , y]) => (Math.max(0, r), y - totalHeight / 2, 0)).
OdePoints(trajectory) ==
    LET totalHeight == trajectory[Len(trajectory)][3]
    IN  [i \in 1..Len(trajectory) |->
            [x |-> MathMax0(trajectory[i][1]),
             y |-> RSub(trajectory[i][3], RMul(Half, totalHeight)), z |-> Zero]]

\* integrate has returned to solveProfile; the points are assembled and
\* returned.
OdeProfileReturn ==
    /\ pc = "i_done"
    /\ iopts.deriv = "spindle"
    /\ pc' = "p_done"
    /\ profile' = OdePoints(states)
    /\ UNCHANGED <<quadVars, intVars, geomVars, sceneVars, pa, demoVars>>

\* The parameters the slider of the spindle-slider demo gives.
OdeAs == {Half, R(2)}

\* --------------------------------------------------------- buildGeometry

\* Float32Array storage (THREE.Float32BufferAttribute): a finite number is
\* rounded to the nearest value with a 24-bit significand, ties to even.
\* Exponent range limits are not reached by the coordinates sampled here.
RECURSIVE IsPow2(_)
IsPow2(d) == d = 1 \/ (d % 2 = 0 /\ IsPow2(d \div 2))

\* The exponent e and scaled pair <<a', d', e>> with a'/d' in [1, 2).
RECURSIVE ScaleToUnit(_, _, _)
ScaleToUnit(a, d, e) ==
    IF a >= 2 * d THEN ScaleToUnit(a, 2 * d, e + 1)
    ELSE IF a < d THEN ScaleToUnit(2 * a, d, e - 1)
    ELSE <<a, d, e>>

\* Long division: k more quotient bits of r/d appended to q; <<q, r>>.
RECURSIVE QuotientBits(_, _, _, _)
QuotientBits(q, r, d, k) ==
    IF k = 0 THEN <<q, r>>
    ELSE IF 2 * r >= d THEN QuotientBits(2 * q + 1, 2 * r - d, d, k - 1)
    ELSE QuotientBits(2 * q, 2 * r, d, k - 1)

RECURSIVE Pow2(_)
Pow2(k) == IF k = 0 THEN 1 ELSE 2 * Pow2(k - 1)

\* n / 2^s rounded to the nearest integer, ties to even, s chosen as the
\* least shift that leaves at most 24 bits: <<m, 2^s>>.
RECURSIVE ShiftTo24(_, _)
ShiftTo24(n, unit) ==
    IF n \div unit < Pow2(24)
    THEN LET q == n \div unit
             r == n % unit
             up == unit > 1 /\ (r > unit \div 2 \/ (r = unit \div 2 /\ q % 2 = 1))
         IN  <<IF up THEN q + 1 ELSE q, unit>>
    ELSE ShiftTo24(n, 2 * unit)

ToFloat32(x) ==
    IF ~IsFinite(x) \/ x[1] = 0 THEN x
    ELSE IF IsPow2(x[2]) /\ Abs(x[1]) < Pow2(24) THEN x
    ELSE IF IsPow2(x[2])
    THEN LET mu == ShiftTo24(Abs(x[1]), 1)
         IN  Norm((IF x[1] < 0 THEN -1 ELSE 1) * mu[1] * mu[2], x[2])
    ELSE LET sc == ScaleToUnit(Abs(x[1]), x[2], 0)
             qr == QuotientBits(1, sc[1] - sc[2], sc[2], 23)
             up == 2 * qr[2] > sc[2] \/ (2 * qr[2] = sc[2] /\ qr[1] % 2 = 1)
             m == IF up THEN qr[1] + 1 ELSE qr[1]
             sg == IF x[1] < 0 THEN -1 ELSE 1
             e == sc[3] - 23
         IN  IF e >= 0 THEN Norm(sg * m * Pow2(e), 1) ELSE Norm(sg * m, Pow2(-e))

\* new THREE.Float32BufferAttribute(array, itemSize).
Float32BufferAttributeExact(array, itemSize) ==
    [array |-> array, itemSize |-> itemSize]
Float32BufferAttribute(array, itemSize) ==
    [array |-> [k \in 1..Len(array) |-> ToFloat32(array[k])],
     itemSize |-> itemSize]

\* ---------------------------------------------------------- NumericalCurve
\* A NumericalCurve is a THREE.CatmullRomCurve3: the record
\* [points, closed, curveType, tension], points a sequence of [x, y, z].

Floor(x) == x[1] \div x[2]

Point3(x, y, z) == [x |-> x, y |-> y, z |-> z]

\* CatmullRomCurve3.getPoint reads components of points[0] and points[1] of
\* an open curve, and of points[k % l] of a closed one: with fewer points
\* than that it reads a component of undefined, a TypeError.
GetPointThrows(curve) ==
    IF curve.closed THEN Len(curve.points) < 1 ELSE Len(curve.points) < 2

\* CubicPoly.initCatmullRom(x0, x1, x2, x3, tension) then calc(w):
\* init(x1, x2, tension * (x2 - x0), tension * (x3 - x1)) sets
\* c0 = x1, c1 = t0, c2 = -3 x1 + 3 x2 - 2 t0 - t1, c3 = 2 x1 - 2 x2 + t0 + t1
\* and calc(w) = c0 + c1 w + c2 w^2 + c3 w^3.
UniformCalc(x0, x1, x2, x3, tension, w) ==
    LET t0 == RMul(tension, RSub(x2, x0))
        t1 == RMul(tension, RSub(x3, x1))
        c2 == RSub(RSub(RAdd(RMul(R(-3), x1), RMul(R(3), x2)), RMul(R(2), t0)), t1)
        c3 == RAdd(RAdd(RSub(RMul(R(2), x1), RMul(R(2), x2)), t0), t1)
        w2 == RMul(w, w)
    IN  RAdd(RAdd(RAdd(x1, RMul(t0, w)), RMul(c2, w2)), RMul(c3, RMul(w2, w)))

\* initNonuniformCatmullRom (curveType 'centripetal' and 'chordal') sets the
\* same c0 .. c3 from tangents that are fourth roots of distances, which
\* are irrational; at the ends of a segment they cancel: calc(0) = x1 and
\* calc(1) = x2.  The model evaluates such curves at segment ends only.
NonuniformCalc(x1, x2, w) == IF w = Zero THEN x1 ELSE x2

SegmentCalc(curve, x0, x1, x2, x3, w) ==
    IF curve.curveType = "catmullrom"
    THEN UniformCalc(x0, x1, x2, x3, curve.tension, w)
    ELSE NonuniformCalc(x1, x2, w)

\* 2 a - b, the point extrapolated beyond a from b.
Extrapolate(a, b) ==
    Point3(RSub(RMul(R(2), a.x), b.x), RSub(RMul(R(2), a.y), b.y),
           RSub(RMul(R(2), a.z), b.z))

\* CatmullRomCurve3.getPoint(t) for 0 <= t <= 1 on a curve on which it does
\* not throw: first the segment <<intPoint, weight>> that t falls in, the
\* end of an open curve being the end of its last segment.
CurveSegment(curve, t) ==
    LET l == Len(curve.points)
        p == RMul(R(l - (IF curve.closed THEN 0 ELSE 1)), t)
        floorP == Floor(p)
    IN  IF curve.closed
        THEN <<floorP + (IF floorP > 0 THEN 0 ELSE ((Abs(floorP) \div l) + 1) * l),
               RSub(p, R(floorP))>>
        ELSE IF p = R(floorP) /\ floorP = l - 1 THEN <<l - 2, One>>
        ELSE <<floorP, RSub(p, R(floorP))>>

\* Then the four control points and the cubic through them.  Both
\* extrapolated points are written to the one module-level vector _tmp, so
\* when both are needed p0 is the value written last.
SegmentPoint(curve, intPoint, weight) ==
    LET points == curve.points
        l == Len(points)
        hasPrev == curve.closed \/ intPoint > 0
        hasNext == curve.closed \/ intPoint + 2 < l
        p0 == IF hasPrev THEN points[((intPoint - 1) % l) + 1]
              ELSE IF hasNext THEN Extrapolate(points[1], points[2])
              ELSE Extrapolate(points[l], points[l - 1])
        p1 == points[(intPoint % l) + 1]
        p2 == points[((intPoint + 1) % l) + 1]
        p3 == IF hasNext THEN points[((intPoint + 2) % l) + 1]
              ELSE Extrapolate(points[l], points[l - 1])
    IN  Point3(SegmentCalc(curve, p0.x, p1.x, p2.x, p3.x, weight),
               SegmentCalc(curve, p0.y, p1.y, p2.y, p3.y, weight),
               SegmentCalc(curve, p0.z, p1.z, p2.z, p3.z, weight))

CurveGetPoint(curve, t) ==
    LET segment == CurveSegment(curve, t)
    IN  SegmentPoint(curve, segment[1], segment[2])

\* Math.cos and Math.sin of q * pi for q a multiple of 1/2, the angles of a
\* grid of 1, 2 or 4 segments on [0, 2 pi]; an angle is held as its
\* multiple q of pi.
CosPi(q) ==
    LET r == Floor(RMul(R(2), q)) % 4
    IN  IF r = 0 THEN One ELSE IF r = 2 THEN R(-1) ELSE Zero
SinPi(q) ==
    LET r == Floor(RMul(R(2), q)) % 4
    IN  IF r = 1 THEN One ELSE IF r = 3 THEN R(-1) ELSE Zero

\* The parametric surfaces handed to buildGeometry.  eval names evaluate,
\* "missing" when the surface has no such member:
\*   "plane"   (u, v) => (u, v, 0)
\*   "saddle"  (u, v) => (u, v, u*v)
\*   "fan"     (u, v) => (u*v, v, 0), whose row v = 0 is a single point
\*   "revolution"  the demos' surface of revolution of the curve
\*                 surface.curve: with p = curve.evaluate(v),
\*                 (p.x cos u, p.y, -p.x sin u)
\* normal names computeNormal, "none" when the surface has no such member:
\*   "unitZ"   (u, v) => (0, 0, 1)
\*   "tilt"    (u, v) => (u, v, 1)
\* domain is what getDomain() returns.
SurfaceEvaluate(surface, u, v) ==
    CASE surface.eval = "plane" -> [x |-> u, y |-> v, z |-> Zero]
      [] surface.eval = "saddle" -> [x |-> u, y |-> v, z |-> JSMul(u, v)]
      [] surface.eval = "fan" -> [x |-> JSMul(u, v), y |-> v, z |-> Zero]
      [] surface.eval = "revolution" ->
            LET p == CurveGetPoint(surface.curve, v)
            IN  [x |-> JSMul(p.x, CosPi(u)), y |-> p.y,
                 z |-> RNeg(JSMul(p.x, SinPi(u)))]

\* surface.evaluate is not a function, or the curve it evaluates throws:
\* calling it throws a TypeError.
EvaluateThrows(surface) ==
    \/ surface.eval = "missing"
    \/ surface.eval = "revolution" /\ GetPointThrows(surface.curve)

SurfaceComputeNormal(surface, u, v) ==
    CASE surface.normal = "unitZ" -> [x |-> Zero, y |-> Zero, z |-> One]
      [] surface.normal = "tilt" -> [x |-> u, y |-> v, z |-> One]

\* buildGeometry.js line 38: 'computeNormal' in surface.
HasNormals(surface) == surface.normal # "none"

\* options.key ?? fallback: options.given holds the keys that are present
\* with a value other than null or undefined.
OptionIgnored(options, key, fallback) == fallback
Option(options, key, fallback) ==
    IF key \in options.given THEN options[key] ELSE fallback

\* buildGeometry.js lines 34-35: the default segment count.
DefaultSegments == 32

\* buildGeometry.js lines 47 and 50: min + (max - min) * (k / segments).
GridParamNoMin(min, max, k, segments) ==
    JSMul(JSSub(max, min), JSDiv(R(k), R(segments)))
GridParam(min, max, k, segments) ==
    JSAdd(min, JSMul(JSSub(max, min), JSDiv(R(k), R(segments))))

\* buildGeometry.js lines 73-76: the four corners of cell (i, j).
CellV0(i, j, U) == i * (U + 1) + j
CellV1(i, j, U) == (i + 1) * (U + 1) + j
CellV2(i, j, U) == i * (U + 1) + (j + 1)
CellV3SameColumn(i, j, U) == (i + 1) * (U + 1) + j
CellV3(i, j, U) == (i + 1) * (U + 1) + (j + 1)

\* buildGeometry.js lines 80-81: the two triangles pushed for one cell.
CellTrianglesFlipped(v0, v1, v2, v3) == <<v0, v1, v2, v1, v3, v2>>
CellTriangles(v0, v1, v2, v3) == <<v0, v2, v1, v1, v2, v3>>

\* buildGeometry.js lines 46 and 49: the bound of the vertex loops (<= segments).
VertexLoopExclusive(k, segments) == k < segments
VertexLoopInRange(k, segments) == k <= segments

\* geometry.computeVertexNormals() of three.js on an indexed geometry: for
\* each triangle (vA, vB, vC) of the index the face vector
\* (pC - pB) x (pA - pB) is added to the normals of its three vertices, the
\* normals being kept in a Float32Array that starts at zero; normalizeNormals
\* then divides every normal by its length, a zero length counting as 1.
\* The array computed here holds the sums before that division, whose
\* result is irrational: a finite non-zero sum stands for a unit normal and
\* a zero sum for the zero normal.
\* A read past the end of a typed array gives undefined, which is NaN in
\* the arithmetic that follows.
TypedRead(array, k) == IF k \in 1..Len(array) THEN array[k] ELSE NaN
Vec3At(array, v) ==
    [x |-> TypedRead(array, 3 * v + 1), y |-> TypedRead(array, 3 * v + 2),
     z |-> TypedRead(array, 3 * v + 3)]
Vec3Add(a, b) ==
    [x |-> JSAdd(a.x, b.x), y |-> JSAdd(a.y, b.y), z |-> JSAdd(a.z, b.z)]
Vec3Sub(a, b) ==
    [x |-> JSSub(a.x, b.x), y |-> JSSub(a.y, b.y), z |-> JSSub(a.z, b.z)]
Vec3CrossZero(a, b) == [x |-> Zero, y |-> Zero, z |-> Zero]
Vec3Cross(a, b) ==
    [x |-> JSSub(JSMul(a.y, b.z), JSMul(a.z, b.y)),
     y |-> JSSub(JSMul(a.z, b.x), JSMul(a.x, b.z)),
     z |-> JSSub(JSMul(a.x, b.y), JSMul(a.y, b.x))]
SetXYZ(array, v, n) ==
    [array EXCEPT ![3 * v + 1] = ToFloat32(n.x),
                  ![3 * v + 2] = ToFloat32(n.y),
                  ![3 * v + 3] = ToFloat32(n.z)]

RECURSIVE AccumulateFaceNormals(_, _, _, _)
AccumulateFaceNormals(position, index, i, normal) ==
    IF i >= Len(index) THEN normal
    ELSE LET vA == index[i + 1]
             vB == index[i + 2]
             vC == index[i + 3]
             cb == Vec3Cross(Vec3Sub(Vec3At(position, vC), Vec3At(position, vB)),
                             Vec3Sub(Vec3At(position, vA), Vec3At(position, vB)))
             nA == Vec3Add(Vec3At(normal, vA), cb)
             nB == Vec3Add(Vec3At(normal, vB), cb)
             nC == Vec3Add(Vec3At(normal, vC), cb)
         IN  AccumulateFaceNormals(position, index, i + 3,
                 SetXYZ(SetXYZ(SetXYZ(normal, vA, nA), vB, nB), vC, nC))

ComputeVertexNormals(position, index) ==
    [array |-> AccumulateFaceNormals(position.array, index, 0,
                                     [k \in 1..Len(position.array) |-> Zero]),
     itemSize |-> 3]

NoGeometry ==
    [index |-> <<>>, position |-> [array |-> <<>>, itemSize |-> 0],
     uv |-> [array |-> <<>>, itemSize |-> 0],
     normal |-> [array |-> <<>>, itemSize |-> 0], normalsFrom |-> "none"]

\* buildGeometry.js lines 29-35: the domain of the surface with the option
\* overrides, and the segment counts.
EffectiveDomain(surface, options) ==
    [uMin |-> Option(options, "uMin", surface.domain.uMin),
     uMax |-> Option(options, "uMax", surface.domain.uMax),
     vMin |-> Option(options, "vMin", surface.domain.vMin),
     vMax |-> Option(options, "vMax", surface.domain.vMax),
     uSegments |-> Option(options, "uSegments", DefaultSegments),
     vSegments |-> Option(options, "vSegments", DefaultSegments)]

\* buildGeometry.js lines 85-102: the BufferGeometry made of the four arrays.
AssembleGeometry(positionArray, normalArray, uvArray, indexArray) ==
    [index |-> indexArray,
     position |-> Float32BufferAttribute(positionArray, 3),
     uv |-> Float32BufferAttribute(uvArray, 2),
     normal |-> IF Len(normalArray) > 0
                THEN Float32BufferAttribute(normalArray, 3)
                ELSE ComputeVertexNormals(
                         Float32BufferAttribute(positionArray, 3), indexArray),
     normalsFrom |-> IF Len(normalArray) > 0 THEN "analytic"
                     ELSE "computeVertexNormals"]

GeomIdle ==
    /\ gsurface = [eval |-> "plane", normal |-> "none",
                   domain |-> [uMin |-> Zero, uMax |-> Zero,
                               vMin |-> Zero, vMax |-> Zero]]
    /\ goptions = [given |-> {}, uMin |-> Zero, uMax |-> Zero, vMin |-> Zero,
                   vMax |-> Zero, uSegments |-> 0, vSegments |-> 0]
    /\ gdom = [uMin |-> Zero, uMax |-> Zero, vMin |-> Zero, vMax |-> Zero,
               uSegments |-> 0, vSegments |-> 0]
    /\ positions = <<>> /\ normals = <<>> /\ uvs = <<>> /\ indices = <<>>
    /\ gi = 0 /\ gj = 0
    /\ evalCalls = <<>> /\ normalCalls = <<>>
    /\ geometry = NoGeometry

\* buildGeometry.js lines 41-43: const positions = [], normals = [], uvs = [].
StaleArrays ==
    [positions |-> buffers.position.array, normals |-> <<>>,
     uvs |-> buffers.uv.array]
FreshArrays == [positions |-> <<>>, normals |-> <<>>, uvs |-> <<>>]

\* buildGeometry.js lines 27-46: the domain with option overrides, the
\* empty vertex arrays, and the start of the vertex loops.
StartBuild(surface, options) ==
    /\ gsurface' = surface
    /\ goptions' = options
    /\ gdom' = EffectiveDomain(surface, options)
    /\ positions' = FreshArrays.positions
    /\ normals' = FreshArrays.normals
    /\ uvs' = FreshArrays.uvs
    /\ gi' = 0 /\ gj' = 0
    /\ evalCalls' = <<>> /\ normalCalls' = <<>>
    /\ pc' = "g_vertices"
    /\ UNCHANGED <<indices, geometry>>

\* buildGeometry(surface, options) called on its own.
CallBuildGeometry(surface, options) ==
    /\ pc = "idle"
    /\ StartBuild(surface, options)
    /\ UNCHANGED <<quadVars, intVars, sceneVars, profVars>>

\* buildGeometry.js lines 46-65: one iteration of the inner vertex loop at
\* grid node (i, j), then j++ and, at the end of a row, i++.
GeomVertex ==
    /\ pc = "g_vertices"
    /\ VertexLoopInRange(gi, gdom.vSegments)
    /\ VertexLoopInRange(gj, gdom.uSegments)
    /\ ~EvaluateThrows(gsurface)
    /\ LET v == GridParam(gdom.vMin, gdom.vMax, gi, gdom.vSegments)
           u == GridParam(gdom.uMin, gdom.uMax, gj, gdom.uSegments)
           point == SurfaceEvaluate(gsurface, u, v)
       IN  /\ evalCalls' = Append(evalCalls, <<u, v>>)
           /\ positions' = positions \o <<point.x, point.y, point.z>>
           /\ normals' =
                IF HasNormals(gsurface)
                THEN LET normal == SurfaceComputeNormal(gsurface, u, v)
                     IN  normals \o <<normal.x, normal.y, normal.z>>
                ELSE normals
           /\ normalCalls' =
                IF HasNormals(gsurface) THEN Append(normalCalls, <<u, v>>)
                ELSE normalCalls
           /\ uvs' = uvs \o <<JSDiv(R(gj), R(gdom.uSegments)),
                              JSDiv(R(gi), R(gdom.vSegments))>>
    /\ IF VertexLoopInRange(gj + 1, gdom.uSegments)
       THEN gj' = gj + 1 /\ gi' = gi
       ELSE gj' = 0 /\ gi' = gi + 1
    /\ UNCHANGED <<pc, gsurface, goptions, gdom, indices, geometry,
                   quadVars, intVars, sceneVars, profVars>>

\* buildGeometry.js line 53 on a surface without an evaluate function: the
\* call throws a TypeError out of buildGeometry, which returns nothing.
GeomVertexThrows ==
    /\ pc = "g_vertices"
    /\ VertexLoopInRange(gi, gdom.vSegments)
    /\ VertexLoopInRange(gj, gdom.uSegments)
    /\ EvaluateThrows(gsurface)
    /\ pc' = "g_threw"
    /\ UNCHANGED <<geomVars, quadVars, intVars, sceneVars, profVars>>

\* buildGeometry.js lines 46 and 68: the vertex loops end and indices = [].
GeomVerticesDone ==
    /\ pc = "g_vertices"
    /\ ~VertexLoopInRange(gi, gdom.vSegments)
    /\ indices' = <<>>
    /\ gi' = 0 /\ gj' = 0
    /\ pc' = "g_indices"
    /\ UNCHANGED <<gsurface, goptions, gdom, positions, normals, uvs, geometry,
                   evalCalls, normalCalls, quadVars, intVars, sceneVars, profVars>>

\* buildGeometry.js lines 70-83: one iteration of the inner index loop at
\* cell (i, j), then j++ and, at the end of a row, i++.
GeomCell ==
    /\ pc = "g_indices"
    /\ gi < gdom.vSegments
    /\ gj < gdom.uSegments
    /\ LET U == gdom.uSegments
       IN  indices' = indices \o CellTriangles(CellV0(gi, gj, U), CellV1(gi, gj, U),
                                                CellV2(gi, gj, U), CellV3(gi, gj, U))
    /\ IF gj + 1 < gdom.uSegments
       THEN gj' = gj + 1 /\ gi' = gi
       ELSE gj' = 0 /\ gi' = gi + 1
    /\ UNCHANGED <<pc, gsurface, goptions, gdom, positions, normals, uvs,
                   geometry, evalCalls, normalCalls, quadVars, intVars, sceneVars, profVars>>

\* buildGeometry.js lines 70 and 85-102: the index loops end, the
\* BufferGeometry is filled and returned.
GeomFinish ==
    /\ pc = "g_indices"
    /\ ~(gi < gdom.vSegments)
    /\ geometry' = AssembleGeometry(positions, normals, uvs, indices)
    /\ pc' = "g_done"
    /\ UNCHANGED <<gsurface, goptions, gdom, positions, normals, uvs, indices,
                   gi, gj, evalCalls, normalCalls, quadVars, intVars, sceneVars, profVars>>

\* buildGeometry(surface, options) as one function of its arguments, the
\* reference the stepwise run is compared with: the vertex loops (lines 46-65) over the nodes
\* k = i (U+1) + j in row-major order, the index loops (lines 70-83) over
\* the cells c = i U + j, then the geometry; threw when surface.evaluate
\* throws at the first node.
PushVertex(acc, point, normal, uv) ==
    [positions |-> acc.positions \o <<point.x, point.y, point.z>>,
     normals |-> acc.normals \o normal,
     uvs |-> acc.uvs \o uv]

NodeNormal(surface, u, v) ==
    IF HasNormals(surface)
    THEN LET normal == SurfaceComputeNormal(surface, u, v)
         IN  <<normal.x, normal.y, normal.z>>
    ELSE <<>>

RECURSIVE BuildVertices(_, _, _, _)
BuildVertices(surface, d, k, acc) ==
    LET i == k \div (d.uSegments + 1)
        j == k % (d.uSegments + 1)
    IN  IF ~VertexLoopInRange(i, d.vSegments) THEN acc
        ELSE LET v == GridParam(d.vMin, d.vMax, i, d.vSegments)
                 u == GridParam(d.uMin, d.uMax, j, d.uSegments)
             IN  BuildVertices(surface, d, k + 1,
                     PushVertex(acc, SurfaceEvaluate(surface, u, v),
                                NodeNormal(surface, u, v),
                                <<JSDiv(R(j), R(d.uSegments)),
                                  JSDiv(R(i), R(d.vSegments))>>))

RECURSIVE BuildIndices(_, _, _)
BuildIndices(d, c, acc) ==
    LET U == d.uSegments
        i == c \div U
        j == c % U
    IN  IF ~(i < d.vSegments) THEN acc
        ELSE BuildIndices(d, c + 1,
                 acc \o CellTriangles(CellV0(i, j, U), CellV1(i, j, U),
                                      CellV2(i, j, U), CellV3(i, j, U)))

BuildGeometry(surface, options) ==
    LET d == EffectiveDomain(surface, options)
    IN  IF EvaluateThrows(surface)
        THEN [threw |-> TRUE, geometry |-> NoGeometry]
        ELSE LET arrays == BuildVertices(surface, d, 0, FreshArrays)
             IN  [threw |-> FALSE,
                  geometry |-> AssembleGeometry(arrays.positions, arrays.normals,
                                   arrays.uvs, BuildIndices(d, 0, <<>>))]

SurfaceDomains ==
    {[uMin |-> Zero, uMax |-> One, vMin |-> Zero, vMax |-> One],
     [uMin |-> Zero, uMax |-> R(2), vMin |-> R(-1), vMax |-> One]}

\* A domain on which every grid node of every grid up to 4 x 4 has
\* coordinates that a Float32Array holds exactly.
ExactDomain == [uMin |-> Zero, uMax |-> R(3), vMin |-> Zero, vMax |-> R(3)]

\* Domains with a bound that is not a finite number.
NonFiniteDomains ==
    {[uMin |-> Zero, uMax |-> Infinity, vMin |-> Zero, vMax |-> One],
     [uMin |-> Zero, uMax |-> One, vMin |-> NaN, vMax |-> One]}

HasNonFiniteBound(domain) ==
    \E k \in {"uMin", "uMax", "vMin", "vMax"} : ~IsFinite(domain[k])

Surfaces ==
    [eval : {"plane", "saddle", "fan", "missing"},
     normal : {"none", "unitZ", "tilt"},
     domain : SurfaceDomains \cup {ExactDomain} \cup NonFiniteDomains]

\* The options objects handed to buildGeometry: explicit segment counts,
\* explicit segment counts with two domain bounds overridden, and no options.
GeomOptions ==
    {[given |-> g, uMin |-> R(-1), uMax |-> Zero, vMin |-> Zero, vMax |-> R(2),
      uSegments |-> U, vSegments |-> V] :
        g \in {{"uSegments", "vSegments"},
               {"uSegments", "vSegments", "uMin", "vMax"}},
        U \in 1..MaxSeg, V \in 1..MaxSeg}
    \cup {[given |-> {}, uMin |-> Zero, uMax |-> Zero, vMin |-> Zero,
           vMax |-> Zero, uSegments |-> 0, vSegments |-> 0]}

\* The calls buildGeometry(surface, options) made:
\*   surfaces with an analytic normal on the two ordinary domains, with
\*     every options object that names its segment counts;
\*   surfaces without computeNormal on the exact domain (the face vectors
\*     of the fallback are products of position differences, which must stay
\*     within the integers of the model checker);
\*   the call without options (a 32 x 32 grid), for one surface;
\*   malformed input: a surface without evaluate, and the plane on a domain
\*     with a non-finite bound.
GeomCalls ==
    {c \in Surfaces \X GeomOptions :
        LET s == c[1]
            o == c[2]
            plain == o.given = {"uSegments", "vSegments"}
        IN  \/ /\ s.eval \in {"plane", "saddle"} /\ s.normal # "none"
               /\ s.domain \in SurfaceDomains /\ o.given # {}
            \/ /\ s.eval # "missing" /\ s.normal = "none"
               /\ s.domain = ExactDomain /\ plain
            \/ /\ o.given = {}
               /\ s = [eval |-> "saddle", normal |-> "tilt",
                       domain |-> [uMin |-> Zero, uMax |-> One,
                                   vMin |-> Zero, vMax |-> One]]
            \/ /\ s.eval = "missing" /\ s.normal \in {"none", "unitZ"}
               /\ s.domain = ExactDomain /\ plain
            \/ /\ s.eval = "plane" /\ s.normal \in {"none", "tilt"}
               /\ s.domain \in NonFiniteDomains /\ plain}

\* ------------------------------------------------------------ the scene
\* The objects of a demo: one NumericalCurve (profileCurve), the surface of
\* revolution that evaluates it, one SurfaceMesh of that surface, and the
\* Sliders made.

NoCurve ==
    [points |-> <<>>, closed |-> FALSE, curveType |-> "centripetal",
     tension |-> Half, cacheArcLengths |-> <<>>, needsUpdate |-> FALSE]
NoMesh == [uSegments |-> 0, vSegments |-> 0, geometry |-> 0]
NoPoint == Point3(Zero, Zero, Zero)

SceneIdle ==
    /\ stage = "none"
    /\ profileCurve = NoCurve
    /\ curvesCreated = 0
    /\ mesh = NoMesh
    /\ geometries = <<>>
    /\ buffers = NoGeometry
    /\ builds = {}
    /\ last = [op |-> "none", arg |-> <<>>, threw |-> FALSE, result |-> NoPoint]
    /\ stylesInjected = FALSE
    /\ styleElements = 0
    /\ sliders = 0

\* The part of the curve object that getPoint reads.
CurveShape(curve) ==
    [points |-> curve.points, closed |-> curve.closed,
     curveType |-> curve.curveType, tension |-> curve.tension]

\* The demos' surface object: evaluate reads profileCurve when it is
\* called; the domain is [0, 2 pi] x [0, 1], u held as a multiple of pi.
SurfaceOf(curve) ==
    [eval |-> "revolution", normal |-> "none",
     domain |-> [uMin |-> Zero, uMax |-> R(2), vMin |-> Zero, vMax |-> One],
     curve |-> CurveShape(curve)]

\* NumericalCurve.js lines 16-23: new NumericalCurve(options).  The Curve
\* constructor leaves the arc-length cache undefined.
ConstructedCurve(options) ==
    [points |-> options.points,
     closed |-> Option(options, "closed", FALSE),
     curveType |-> Option(options, "curveType", "centripetal"),
     tension |-> Option(options, "tension", Half),
     cacheArcLengths |-> <<>>, needsUpdate |-> FALSE]

NewNumericalCurve(options) ==
    /\ pc = "idle" /\ stage = "none"
    /\ profileCurve' = ConstructedCurve(options)
    /\ curvesCreated' = curvesCreated + 1
    /\ stage' = "curve"
    /\ last' = [op |-> "new NumericalCurve", arg |-> options.points,
                threw |-> FALSE, result |-> NoPoint]
    /\ UNCHANGED <<pc, quadVars, intVars, geomVars, profVars, mesh, geometries, buffers,
                   builds, stylesInjected, styleElements, sliders>>

\* NumericalCurve.js line 40: this.points = points.
KeptPoints(old, points) == old
InstalledPoints(old, points) == points

\* Curve.getLengths as updateArcLengths runs it: the cache is computed from
\* getPoint(p / 200), p = 0 .. 200, on the points the curve holds.  The
\* lengths are square roots; the cache is held as the point sequence it was
\* computed from.
StaleCache(curve) == curve.cacheArcLengths
RebuiltCache(curve) == <<curve.points>>

\* NumericalCurve.js lines 39-42: updatePoints(points).  updateArcLengths
\* sets needsUpdate, getLengths clears it and samples the curve; when
\* getPoint throws, the cache of the old points is still in place.
PointsInstalled(curve, points) ==
    [curve EXCEPT !.points = InstalledPoints(curve.points, points),
                  !.needsUpdate = FALSE]

UpdatedCurve(curve, points) ==
    LET installed == PointsInstalled(curve, points)
    IN  IF GetPointThrows(installed) THEN installed
        ELSE [installed EXCEPT !.cacheArcLengths = RebuiltCache(installed)]

UpdatePoints(points) ==
    /\ pc = "idle" /\ stage \in {"curve", "mesh"}
    /\ profileCurve' = UpdatedCurve(profileCurve, points)
    /\ last' = [op |-> "updatePoints", arg |-> points,
                threw |-> GetPointThrows(PointsInstalled(profileCurve, points)),
                result |-> NoPoint]
    /\ UNCHANGED <<pc, quadVars, intVars, geomVars, profVars, stage, curvesCreated, mesh,
                   geometries, buffers, builds, stylesInjected, styleElements,
                   sliders>>

\* NumericalCurve.js lines 26-28: evaluate(t) is getPoint(t).
Evaluate(t) ==
    /\ pc = "idle" /\ stage \in {"curve", "mesh"}
    /\ profileCurve.curveType = "catmullrom" \/ t \in {Zero, One}
    /\ last' = IF GetPointThrows(profileCurve)
               THEN [op |-> "evaluate", arg |-> t, threw |-> TRUE,
                     result |-> NoPoint]
               ELSE [op |-> "evaluate", arg |-> t, threw |-> FALSE,
                     result |-> CurveGetPoint(CurveShape(profileCurve), t)]
    /\ UNCHANGED <<pc, quadVars, intVars, geomVars, profVars, stage, profileCurve,
                   curvesCreated, mesh, geometries, buffers, builds,
                   stylesInjected, styleElements, sliders>>

\* NumericalCurve.js lines 34-36: computeTangent(t) is getTangent(t), the
\* normalised difference of getPoint(t - 0.0001) and getPoint(t + 0.0001)
\* (both clamped to [0, 1]): served without reading or writing the cache.
\* The tangent itself is irrational and is not held.
ComputeTangent(t) ==
    /\ pc = "idle" /\ stage \in {"curve", "mesh"}
    /\ last' = [op |-> "computeTangent", arg |-> t,
                threw |-> GetPointThrows(profileCurve), result |-> NoPoint]
    /\ UNCHANGED <<pc, quadVars, intVars, geomVars, profVars, stage, profileCurve,
                   curvesCreated, mesh, geometries, buffers, builds,
                   stylesInjected, styleElements, sliders>>

\* SurfaceMesh.js line 62: this.geometry = buildGeometry(...).
RebuiltGeometryKept(held, built) == held
RebuiltGeometry(held, built) == built

\* The options rebuild passes to buildGeometry (lines 62-65).
StoredOptions(m) ==
    [given |-> {"uSegments", "vSegments"}, uSegments |-> m.uSegments,
     vSegments |-> m.vSegments]

\* SurfaceMesh.js lines 14-55 and 58-62: new SurfaceMesh(surface, options).
\* super() gives the mesh an empty BufferGeometry (id 1); the constructor
\* stores the segment counts and ends with this.rebuild(), which disposes
\* that geometry and calls buildGeometry.
NewSurfaceMesh(options) ==
    /\ pc = "idle" /\ stage = "curve"
    /\ \E m \in {[uSegments |-> Option(options, "uSegments", DefaultSegments),
                   vSegments |-> Option(options, "vSegments", DefaultSegments),
                   geometry |-> 1]} :
           /\ mesh' = m
           /\ StartBuild(SurfaceOf(profileCurve), StoredOptions(m))
    /\ geometries' = <<[disposed |-> TRUE]>>
    /\ stage' = "constructing"
    /\ last' = [op |-> "new SurfaceMesh", arg |-> <<>>, threw |-> FALSE,
                result |-> NoPoint]
    /\ UNCHANGED <<quadVars, intVars, profVars, profileCurve, curvesCreated,
                   buffers, builds, stylesInjected, styleElements, sliders>>

\* SurfaceMesh.js lines 58-62: mesh.rebuild() disposes the geometry held
\* and calls buildGeometry on the surface with the stored segment counts.
RebuildStarts(curve) ==
    /\ geometries' = [geometries EXCEPT ![mesh.geometry] = [disposed |-> TRUE]]
    /\ StartBuild(SurfaceOf(curve), StoredOptions(mesh))
    /\ last' = [op |-> "rebuild", arg |-> <<>>, threw |-> FALSE,
                result |-> NoPoint]

Rebuild ==
    /\ pc = "idle" /\ stage = "mesh"
    /\ Len(geometries) < MaxGeometries
    /\ RebuildStarts(profileCurve)
    /\ UNCHANGED <<quadVars, intVars, profVars, stage, profileCurve,
                   curvesCreated, mesh, buffers, builds, stylesInjected,
                   styleElements, sliders>>

\* The record of a completed build: the geometry made, what buildGeometry
\* was given and the arrays the mesh holds after it.
BuildRecord(id, arrays) ==
    [id |-> id, curve |-> CurveShape(profileCurve),
     uSegments |-> mesh.uSegments, vSegments |-> mesh.vSegments,
     geometry |-> arrays]

\* SurfaceMesh.js lines 62-66: buildGeometry has returned; its geometry is
\* installed and rebuild (and the constructor that called it) returns.
RebuildReturn ==
    /\ pc = "g_done" /\ stage \in {"constructing", "mesh"}
    /\ mesh' = [mesh EXCEPT !.geometry = Len(geometries) + 1]
    /\ geometries' = Append(geometries, [disposed |-> FALSE])
    /\ buffers' = RebuiltGeometry(buffers, geometry)
    /\ builds' = builds \cup
                   {BuildRecord(Len(geometries) + 1,
                                RebuiltGeometry(buffers, geometry))}
    /\ stage' = "mesh"
    /\ pc' = "idle"
    /\ UNCHANGED <<quadVars, intVars, geomVars, profVars, profileCurve,
                   curvesCreated, last, stylesInjected, styleElements, sliders>>

\* SurfaceMesh.js line 62 when buildGeometry throws: rebuild throws with
\* the disposed geometry still held; a constructor that throws leaves no
\* mesh.
RebuildThrows ==
    /\ pc = "g_threw" /\ stage \in {"constructing", "mesh"}
    /\ pc' = "idle"
    /\ last' = [last EXCEPT !.threw = TRUE]
    /\ IF stage = "constructing"
       THEN stage' = "curve" /\ mesh' = NoMesh /\ geometries' = <<>>
       ELSE UNCHANGED <<stage, mesh, geometries>>
    /\ UNCHANGED <<quadVars, intVars, geomVars, profVars, profileCurve,
                   curvesCreated, buffers, builds, stylesInjected,
                   styleElements, sliders>>

\* SurfaceMesh.js lines 68-71: mesh.dispose().
MeshDispose ==
    /\ pc = "idle" /\ stage = "mesh"
    /\ geometries' = [geometries EXCEPT ![mesh.geometry] = [disposed |-> TRUE]]
    /\ last' = [op |-> "dispose", arg |-> <<>>, threw |-> FALSE,
                result |-> NoPoint]
    /\ UNCHANGED <<pc, quadVars, intVars, geomVars, profVars, stage, profileCurve,
                   curvesCreated, mesh, buffers, builds, stylesInjected,
                   styleElements, sliders>>

\* Slider.js lines 24-53 and 60-87: new Slider(...) calls injectStyles(),
\* which appends the style element the first time only.
StyleElementsAlways(injected, count) == count + 1
StyleElementsAfter(injected, count) == IF injected THEN count ELSE count + 1

\* Slider.js lines 60-87: injectStyles().
InjectStyles ==
    /\ stylesInjected' = TRUE
    /\ styleElements' = StyleElementsAfter(stylesInjected, styleElements)

NewSlider ==
    /\ pc = "idle"
    /\ sliders < MaxSliders
    /\ sliders' = sliders + 1
    /\ InjectStyles
    /\ last' = [op |-> "new Slider", arg |-> <<>>, threw |-> FALSE,
                result |-> NoPoint]
    /\ UNCHANGED <<pc, quadVars, intVars, geomVars, profVars, stage, profileCurve,
                   curvesCreated, mesh, geometries, buffers, builds>>

\* Text is held as a sequence of pieces (characters and literal parts of
\* template strings).
DigitChars == <<"0", "1", "2", "3", "4", "5", "6", "7", "8", "9">>
IsDigit(c) == \E k \in 1..10 : DigitChars[k] = c
DigitValue(c) == (CHOOSE k \in 1..10 : DigitChars[k] = c) - 1

RECURSIVE Pow10(_)
Pow10(k) == IF k = 0 THEN 1 ELSE 10 * Pow10(k - 1)

\* The longest prefix of chars made of digits.
RECURSIVE LeadingDigits(_)
LeadingDigits(chars) ==
    IF chars = <<>> \/ ~IsDigit(chars[1]) THEN <<>>
    ELSE <<chars[1]>> \o LeadingDigits(Tail(chars))

RECURSIVE NatOfDigits(_)
NatOfDigits(digits) ==
    IF digits = <<>> THEN 0
    ELSE 10 * NatOfDigits(SubSeq(digits, 1, Len(digits) - 1))
           + DigitValue(digits[Len(digits)])

RECURSIVE DigitsOfNat(_)
DigitsOfNat(n) ==
    IF n < 10 THEN <<DigitChars[n + 1]>>
    ELSE DigitsOfNat(n \div 10) \o <<DigitChars[(n % 10) + 1]>>

\* parseFloat on the unsigned decimal strings a range input holds: the
\* longest prefix digits[.digits]; NaN when it has no digit.
ParseFloat(chars) ==
    LET whole == LeadingDigits(chars)
        rest == SubSeq(chars, Len(whole) + 1, Len(chars))
        fraction == IF rest # <<>> /\ rest[1] = "." THEN LeadingDigits(Tail(rest))
                    ELSE <<>>
    IN  IF whole = <<>> /\ fraction = <<>> THEN NaN
        ELSE Norm(NatOfDigits(whole) * Pow10(Len(fraction)) + NatOfDigits(fraction),
                  Pow10(Len(fraction)))

\* Number.prototype.toFixed(2) of a non-negative number: rounded to
\* hundredths, halves up.
ToFixed2(v) ==
    IF ~IsFinite(v) THEN <<"NaN">>
    ELSE LET hundredths == (200 * v[1] + v[2]) \div (2 * v[2])
         IN  DigitsOfNat(hundredths \div 100)
               \o <<".", DigitChars[((hundredths \div 10) % 10) + 1],
                     DigitChars[(hundredths % 10) + 1]>>

\* Slider.js line 26: the default formatter, `${label} = ${v.toFixed(2)}`;
\* hyperbolic-slider/main.js line 125 (and the tiling demo line 143): the
\* formatter the demos pass.
Format(slider, v) ==
    IF slider.format = "undefined"
    THEN <<slider.label, " = ">> \o ToFixed2(v)
    ELSE <<"a = ">> \o ToFixed2(v) \o <<"  (strip width = ">>
           \o ToFixed2(RMul(R(2), Asinh(JSDiv(One, v)))) \o <<")">>

\* Slider.js lines 24-53: new Slider({ label, value, onChange, format }).
\* input.value holds the string of the number given.
SliderConstructed(options) ==
    /\ sliders' = sliders + 1
    /\ InjectStyles
    /\ sliderEls' = Append(sliderEls,
           [label |-> options.label, format |-> options.format,
            value |-> options.value,
            labelText |-> Format(options, ParseFloat(options.value))])

ConstructSlider(options) ==
    /\ pc = "idle"
    /\ sliders < MaxSliderObjects
    /\ SliderConstructed(options)
    /\ UNCHANGED <<pc, quadVars, intVars, geomVars, pa, profile, demo, loaded,
                   uniforms, aConst, domLog, stage, profileCurve, curvesCreated,
                   mesh, geometries, buffers, builds, last>>

\* Slider.js lines 48-52: the listener of the 'input' event on slider k,
\* after the browser has set input.value to chars:
\*   const v = parseFloat(this.input.value);
\*   this.labelEl.textContent = this._format(v);
\*   onChange(v);
LabelThenOnChange(k, text, v) ==
    <<[slider |-> k, kind |-> "label", value |-> text],
      [slider |-> k, kind |-> "onChange", value |-> v]>>
OnChangeThenLabel(k, text, v) ==
    <<[slider |-> k, kind |-> "onChange", value |-> v],
      [slider |-> k, kind |-> "label", value |-> text]>>
ListenerWrites(k, text, v) == LabelThenOnChange(k, text, v)

InputEvent(k, chars) ==
    \E v \in {ParseFloat(chars)} :
        /\ sliderEls' = [sliderEls EXCEPT
                            ![k].value = chars,
                            ![k].labelText = Format(sliderEls[k], v)]
        /\ domLog' = domLog \o ListenerWrites(k, Format(sliderEls[k], v), v)

\* An input event on a page whose onChange callbacks only record the call.
SliderInput(k, chars) ==
    /\ pc = "idle"
    /\ k \in 1..Len(sliderEls)
    /\ Len(domLog) < 2 * MaxInputs
    /\ InputEvent(k, chars)
    /\ UNCHANGED <<pc, quadVars, intVars, geomVars, sceneVars, pa, profile, demo,
                   loaded, uniforms, aConst>>

\* The strings a range input with min 0.1, max 2, step 0.01 comes to hold.
Chars050 == <<"0", ".", "5">>
InputStrings == {Chars050, <<"2">>, <<"0", ".", "1", "2">>}

\* The options of new Slider: the default formatter and the demos'.
SliderOptions ==
    {[label |-> "a", format |-> f, value |-> Chars050] :
        f \in {"undefined", "strip"}}

\* The point sequences given to the curve: one point, two and three.
PointSequences ==
    {<<Point3(One, Zero, Zero)>>,
     <<Point3(One, R(-1), Zero), Point3(R(2), One, Zero)>>,
     <<Point3(R(2), R(-1), Zero), Point3(One, Zero, Zero),
       Point3(R(3), One, Zero)>>}

\* The options of new NumericalCurve: the demos' (open, 'catmullrom',
\* tension 0.5), a closed curve, and the defaults.
CurveOptions ==
    {[points |-> ps, given |-> g, closed |-> c, curveType |-> "catmullrom",
      tension |-> Half] :
        ps \in {s \in PointSequences : Len(s) >= 2},
        g \in {{"closed", "curveType", "tension"}, {}},
        c \in BOOLEAN}

\* The options of new SurfaceMesh: four segments around the axis and two
\* along a 'catmullrom' curve; one along a centripetal curve, which the
\* surface then evaluates at its two ends only.
MeshOptions ==
    {[given |-> {"uSegments", "vSegments"}, uSegments |-> 4,
      vSegments |-> IF profileCurve.curveType = "catmullrom" THEN 2 ELSE 1]}

EvalTimes == {Zero, Half, One}

\* ------------------------------------------------------------ the program

Init ==
    /\ pc = "idle"
    /\ QuadIdle
    /\ ProfIdle
    /\ IntIdle
    /\ GeomIdle
    /\ SceneIdle

Next ==
    \/ \E f \in Integrands, a \in QuadEndpoints, b \in QuadEndpoints,
          n \in QuadStepCounts : CallQuadrature(f, a, b, n)
    \/ QuadLoop
    \/ QuadReturn
    \/ \E options \in IntOptions : CallIntegrate(options)
    \/ IntLoop
    \/ IntReturn
    \/ \E call \in GeomCalls : CallBuildGeometry(call[1], call[2])
    \/ GeomVertex
    \/ GeomVertexThrows
    \/ GeomVerticesDone
    \/ GeomCell
    \/ GeomFinish

Spec == Init /\ [][Next]_vars

\* The control position of the call in progress: its program point and its
\* loop counters.
position == <<pc, qi, ii, gi, gj>>

\* The next statement of a call that has begun, as far as the control
\* position goes: the loop conditions of quadrature.js lines 22 and 29,
\* integrate.js lines 40, 46 and 49, buildGeometry.js lines 46-65 and 70-85,
\* with the counters they move (what integrate's stop returns decides
\* between i++ and break).
CallAdvances ==
    \/ /\ pc = "q_loop"
       /\ IF qi <= qsteps THEN qi' = qi + 1 /\ pc' = pc
                           ELSE qi' = qi /\ pc' = "q_done"
       /\ UNCHANGED <<ii, gi, gj>>
    \/ /\ pc = "i_loop"
       /\ IF ii < iopts.steps
          THEN \/ ii' = ii + 1 /\ pc' = pc
               \/ ii' = ii /\ pc' = "i_done"
          ELSE ii' = ii /\ pc' = "i_done"
       /\ UNCHANGED <<qi, gi, gj>>
    \/ /\ pc = "g_vertices"
       /\ IF VertexLoopInRange(gi, gdom.vSegments)
          THEN IF EvaluateThrows(gsurface)
               THEN pc' = "g_threw" /\ UNCHANGED <<gi, gj>>
               ELSE /\ pc' = pc
                    /\ IF VertexLoopInRange(gj + 1, gdom.uSegments)
                       THEN gj' = gj + 1 /\ gi' = gi
                       ELSE gj' = 0 /\ gi' = gi + 1
          ELSE pc' = "g_indices" /\ gi' = 0 /\ gj' = 0
       /\ UNCHANGED <<qi, ii>>
    \/ /\ pc = "g_indices"
       /\ IF gi < gdom.vSegments
          THEN /\ pc' = pc
               /\ IF gj + 1 < gdom.uSegments
                  THEN gj' = gj + 1 /\ gi' = gi
                  ELSE gj' = 0 /\ gi' = gi + 1
          ELSE pc' = "g_done" /\ UNCHANGED <<gi, gj>>
       /\ UNCHANGED <<qi, ii>>

\* A call runs to completion on the one JavaScript thread: nothing else is
\* interleaved with it and none of its statements waits, so the next
\* statement of a call in progress is always executed.  Every step of Next
\* from such a position is one of QuadLoop, QuadReturn, IntLoop, IntReturn,
\* GeomVertex, GeomVertexThrows, GeomVerticesDone, GeomCell, GeomFinish, and
\* each of them moves the position as CallAdvances says.
FairSpec == Init /\ [][Next]_vars /\ WF_position(CallAdvances)

SceneNext ==
    \/ \E options \in CurveOptions : NewNumericalCurve(options)
    \/ \E points \in PointSequences : UpdatePoints(points)
    \/ \E t \in EvalTimes : Evaluate(t)
    \/ \E t \in EvalTimes : ComputeTangent(t)
    \/ \E options \in MeshOptions : NewSurfaceMesh(options)
    \/ Rebuild
    \/ GeomVertex
    \/ GeomVertexThrows
    \/ GeomVerticesDone
    \/ GeomCell
    \/ GeomFinish
    \/ RebuildReturn
    \/ RebuildThrows
    \/ MeshDispose
    \/ NewSlider

SceneSpec == Init /\ [][SceneNext]_vars

\* A page that constructs Sliders and receives their input events.
SliderNext ==
    \/ \E options \in SliderOptions : ConstructSlider(options)
    \/ \E k \in 1..MaxSliderObjects, chars \in InputStrings : SliderInput(k, chars)

SliderSpec == Init /\ [][SliderNext]_vars

\* solveProfile and the quadrature call it makes.
ProfileNext ==
    \/ \E a \in ProfileAs : CallSolveProfile(a) /\ UNCHANGED demoVars
    \/ \E a \in SpindleAs : CallSpindleProfile(a) /\ UNCHANGED demoVars
    \/ CallSpindleBasic /\ UNCHANGED demoVars
    \/ \E a \in PseudoAs : CallPseudoProfile(a) /\ UNCHANGED demoVars
    \/ \E a \in OdeAs : CallOdeProfile(a) /\ UNCHANGED demoVars
    \/ QuadLoop
    \/ QuadReturn
    \/ IntLoop
    \/ IntReturn
    \/ SolveProfileReturn
    \/ SolverReturn
    \/ OdeProfileReturn

ProfileSpec == Init /\ [][ProfileNext]_vars

\* ------------------------------------------------------------- the demos
\* The top-level code of a demo's main.js and the setA(a) its slider
\* calls.  Everything runs on the one thread: a module load or an input
\* event runs to its end before the next event is taken.

Demos ==
    {"hyperbolic-slider", "hyperbolic-slider-tiling", "spindle-slider",
     "pseudosphere-slider", "spindle-eastern-hemi"}
ClassSliderDemos == {"hyperbolic-slider", "hyperbolic-slider-tiling"}
PageSliderDemos == {"spindle-slider", "pseudosphere-slider"}
SliderDemos == ClassSliderDemos \cup PageSliderDemos

\* The argument of the module's first solveProfile call:
\* hyperbolic-slider/main.js line 78, the tiling demo line 85, the
\* spindle-slider demo line 119, the pseudosphere demo line 77,
\* spindle-eastern-hemi/main.js line 86.
InitialA(d) == IF d = "pseudosphere-slider" THEN <<1, 4>> ELSE Half

\* spindle-eastern-hemi/main.js lines 141-144.
ImgWidth == 4679
ImgHeight == 4096
TextureA == JSDiv(R(ImgWidth), JSMul(R(2), R(ImgHeight)))

\* solveProfile(a) of demo d, up to the loop of the solver it calls.
SolveProfile(d, a) ==
    CASE d \in ClassSliderDemos -> CallSolveProfile(a)
      [] d = "spindle-slider" -> CallOdeProfile(a)
      [] d = "pseudosphere-slider" -> CallPseudoProfile(a)
      [] d = "spindle-eastern-hemi" -> CallSpindleProfile(a)

\* The module starts to load: const initial = solveProfile(...).
LoadDemo(d) ==
    /\ demo = "none"
    /\ demo' = d
    /\ SolveProfile(d, InitialA(d))
    /\ UNCHANGED <<loaded, uniforms, aConst, sliderEls, domLog>>

\* The options of the demos' new NumericalCurve.
DemoCurveOptions(points) ==
    [points |-> points, given |-> {"closed", "curveType", "tension"},
     closed |-> FALSE, curveType |-> "catmullrom", tension |-> Half]

\* The segment counts of the demos' new SurfaceMesh, scaled from 96 x 48
\* to 4 x 2: the surface is then evaluated at quarter turns and at the two
\* ends and the middle of the profile.  The pseudosphere's profile is not
\* symmetric about its middle sample; it is evaluated at its two ends
\* (4 x 1), which keeps the face normals of its Float32 positions within
\* the integer range of the model.
DemoMeshOptions(d) ==
    [given |-> {"uSegments", "vSegments"}, uSegments |-> 4,
     vSegments |-> IF d = "pseudosphere-slider" THEN 1 ELSE 2]

\* The uniforms object given to new SurfaceMesh:
\*   the tiling demo lines 112-115   uA: initialA, uSMax: initial.sMax
\*   the spindle-slider demo line 159 and spindle-eastern-hemi/main.js
\*   line 133                         a: initial.a
InitialUniforms(d, a, sMax) ==
    CASE d = "hyperbolic-slider-tiling" ->
           [NoUniforms EXCEPT !.uA = InitialA(d), !.uSMax = sMax]
      [] d \in {"spindle-slider", "spindle-eastern-hemi"} ->
           [NoUniforms EXCEPT !.a = a]
      [] OTHER -> NoUniforms

\* solveProfile has returned to the module: new NumericalCurve, the
\* uniforms, and new SurfaceMesh up to the vertex loop of buildGeometry.
LoadScene ==
    /\ pc = "p_done" /\ ~loaded /\ stage = "none"
    /\ \E curve \in {ConstructedCurve(DemoCurveOptions(profile))},
          m \in {[uSegments |-> DemoMeshOptions(demo).uSegments,
                   vSegments |-> DemoMeshOptions(demo).vSegments,
                   geometry |-> 1]} :
          /\ profileCurve' = curve
          /\ mesh' = m
          /\ StartBuild(SurfaceOf(curve), StoredOptions(m))
    /\ curvesCreated' = curvesCreated + 1
    /\ uniforms' = InitialUniforms(demo, pa, qtMax)
    /\ geometries' = <<[disposed |-> TRUE]>>
    /\ stage' = "constructing"
    /\ last' = [op |-> "new SurfaceMesh", arg |-> <<>>, threw |-> FALSE,
                result |-> NoPoint]
    /\ UNCHANGED <<quadVars, intVars, pa, profile, demo, loaded, aConst,
                   sliderEls, domLog, buffers, builds, stylesInjected,
                   styleElements, sliders>>

\* The rest of the module after the mesh is made: the texture constant of
\* spindle-eastern-hemi, new Slider in the hyperbolic demos, the page's
\* own range input in the spindle-slider and pseudosphere demos (its
\* label text is the page's until the first input event).
LoadFinish ==
    /\ pc = "idle" /\ demo # "none" /\ ~loaded /\ stage = "mesh"
    /\ loaded' = TRUE
    /\ aConst' = IF demo = "spindle-eastern-hemi" THEN TextureA ELSE aConst
    /\ CASE demo \in ClassSliderDemos ->
             SliderConstructed([label |-> "a", format |-> "strip",
                                value |-> Chars050])
        [] demo \in PageSliderDemos ->
             /\ sliderEls' = <<[label |-> "a", format |-> "undefined",
                                value |-> <<>>, labelText |-> <<>>]>>
             /\ UNCHANGED <<sliders, stylesInjected, styleElements>>
        [] OTHER ->
             UNCHANGED <<sliders, stylesInjected, styleElements, sliderEls>>
    /\ UNCHANGED <<pc, quadVars, intVars, geomVars, pa, profile, demo, uniforms,
                   domLog, stage, profileCurve, curvesCreated, mesh, geometries,
                   buffers, builds, last>>

\* An input event on the demo's slider: the listener parses the value,
\* writes the label and calls setA(a), whose first statement is
\* solveProfile(a).
DemoInput(chars) ==
    /\ loaded /\ demo \in SliderDemos
    /\ Len(geometries) < MaxGeometries
    /\ InputEvent(1, chars)
    /\ SolveProfile(demo, ParseFloat(chars))
    /\ UNCHANGED <<demo, loaded, uniforms, aConst>>

\* setA, second statement: profileCurve.updatePoints(points).
SetAUpdatePoints ==
    /\ pc = "p_done" /\ loaded
    /\ profileCurve' = UpdatedCurve(profileCurve, profile)
    /\ last' = [op |-> "updatePoints", arg |-> profile,
                threw |-> GetPointThrows(PointsInstalled(profileCurve, profile)),
                result |-> NoPoint]
    /\ pc' = "a_updated"
    /\ UNCHANGED <<quadVars, intVars, geomVars, profVars, stage, curvesCreated,
                   mesh, geometries, buffers, builds, stylesInjected,
                   styleElements, sliders>>

\* setA's writes to the uniforms: the tiling demo lines 134-135
\* (uniforms.uA.value = a; uniforms.uSMax.value = sMax), the
\* spindle-slider demo line 171 (mesh.uniforms.a.value = a).
UniformsKept(d, held, a, sMax) == held
UniformsAfterSetA(d, held, a, sMax) ==
    CASE d = "hyperbolic-slider-tiling" -> [held EXCEPT !.uA = a, !.uSMax = sMax]
      [] d = "spindle-slider" -> [held EXCEPT !.a = a]
      [] OTHER -> held

\* setA, the rest: the uniforms, then mesh.rebuild() up to the vertex loop
\* of buildGeometry.
SetARebuild ==
    /\ pc = "a_updated"
    /\ uniforms' = UniformsAfterSetA(demo, uniforms, pa, qtMax)
    /\ RebuildStarts(profileCurve)
    /\ UNCHANGED <<quadVars, intVars, pa, profile, demo, loaded, aConst,
                   sliderEls, domLog, stage, profileCurve, curvesCreated, mesh,
                   buffers, builds, stylesInjected, styleElements, sliders>>

\* The strings the demo's range input comes to hold.
DemoInputs(d) ==
    IF d = "pseudosphere-slider" THEN {<<"0", ".", "2", "5">>, Chars050}
    ELSE {Chars050, <<"2">>}

DemoNext ==
    \/ \E d \in Demos : LoadDemo(d)
    \/ LoadScene
    \/ LoadFinish
    \/ \E chars \in DemoInputs(demo) : DemoInput(chars)
    \/ SetAUpdatePoints
    \/ SetARebuild
    \/ QuadLoop
    \/ QuadReturn
    \/ IntLoop
    \/ IntReturn
    \/ SolveProfileReturn
    \/ SolverReturn
    \/ OdeProfileReturn
    \/ GeomVertex
    \/ GeomVerticesDone
    \/ GeomCell
    \/ GeomFinish
    \/ RebuildReturn

DemoSpec == Init /\ [][DemoNext]_vars

\* ------------------------------------------------- properties: quadrature

QuadReturned == pc = "q_done"

\* The cumulative trapezoid sum of the first i subintervals, written out
\* from the formula with every integrand value evaluated afresh.
RECURSIVE RefTrapezoid(_, _, _, _)
RefTrapezoid(f, tMin, dt, i) ==
    IF i = 0 THEN Zero
    ELSE RAdd(RefTrapezoid(f, tMin, dt, i - 1),
              RMul(RMul(Half, dt),
                   RAdd(ApplyF(f, RAdd(tMin, RMul(R(i - 1), dt))),
                        ApplyF(f, RAdd(tMin, RMul(R(i), dt))))))

\* C1: a returned quadrature call with steps >= 1 has ts and values of
\* length exactly steps+1, with ts[0] = tMin, values[0] = 0, ts[steps] = tMax.
C1_QuadratureShape ==
    (QuadReturned /\ qsteps >= 1) =>
        /\ Len(ts) = qsteps + 1
        /\ Len(values) = qsteps + 1
        /\ At(ts, 0) = qtMin
        /\ At(values, 0) = Zero
        /\ At(ts, qsteps) = qtMax

C1_Witness ==
    /\ QuadReturned /\ qsteps = 3
    /\ qtMin = R(-1) /\ qtMax = R(1)
    /\ Len(ts) = 4 /\ At(ts, 3) = R(1)

TsStrictlyIncreasing ==
    \A i \in 1..qsteps : RLt(At(ts, i - 1), At(ts, i))

\* C2 as stated: with steps >= 1 and tMax >= tMin the returned ts is
\* strictly increasing.
C2_AsStated ==
    (QuadReturned /\ qsteps >= 1 /\ RLe(qtMin, qtMax)) => TsStrictlyIncreasing

\* C2 amended: with steps >= 1 and tMax > tMin the returned ts is strictly
\* increasing (on an empty interval tMax = tMin every ts[i] equals tMin).
C2_StrictlyIncreasing ==
    /\ (QuadReturned /\ qsteps >= 1 /\ RLt(qtMin, qtMax)) => TsStrictlyIncreasing
    /\ (QuadReturned /\ qsteps >= 1 /\ qtMin = qtMax) =>
            \A i \in 0..qsteps : At(ts, i) = qtMin

C2_Witness ==
    /\ QuadReturned /\ qsteps = 3
    /\ qtMin = R(0) /\ qtMax = R(1)
    /\ ts = <<R(0), <<1, 3>>, <<2, 3>>, R(1)>>

\* C3: at every point of the loop and at the return, each filled index i in
\* 1..steps satisfies ts[i] = tMin + i*dt and
\* values[i] = values[i-1] + 0.5*dt*(f(ts[i-1]) + f(ts[i])), with
\* dt = (tMax-tMin)/steps, and values[i] is the reference cumulative
\* trapezoid sum.
C3_TrapezoidRecurrence ==
    (pc \in {"q_loop", "q_done"} /\ qsteps >= 1) =>
        LET dt == JSDiv(RSub(qtMax, qtMin), R(qsteps))
        IN  \A i \in 1..(qi - 1) :
                /\ At(ts, i) = RAdd(qtMin, RMul(R(i), dt))
                /\ At(values, i) =
                       RAdd(At(values, i - 1),
                            RMul(RMul(Half, dt),
                                 RAdd(ApplyF(qf, At(ts, i - 1)), ApplyF(qf, At(ts, i)))))
                /\ At(values, i) = RefTrapezoid(qf, qtMin, dt, i)

C3_Witness ==
    /\ QuadReturned /\ qf = "sq" /\ qsteps = 2
    /\ qtMin = R(0) /\ qtMax = R(2)
    /\ values = <<Zero, Half, R(3)>>

ValuesMonotone ==
    \A i \in 1..qsteps : RLe(At(values, i - 1), At(values, i))

\* C4 as stated: for any integrand and steps >= 1 the returned values are
\* monotone non-decreasing.
C4_AsStated ==
    (QuadReturned /\ qsteps >= 1) => ValuesMonotone

\* C4 amended: for steps >= 1, tMax >= tMin and an integrand that is
\* non-negative at every sample point, the returned values are monotone
\* non-decreasing.
C4_MonotoneForNonNegative ==
    (/\ QuadReturned /\ qsteps >= 1 /\ RLe(qtMin, qtMax)
     /\ \A i \in 0..qsteps : RLe(Zero, ApplyF(qf, At(ts, i))))
        => ValuesMonotone

C4_Witness ==
    /\ QuadReturned /\ qf = "id" /\ qsteps = 2
    /\ qtMin = R(0) /\ qtMax = R(2)
    /\ values = <<Zero, Half, R(2)>>

\* C5: on [0, 1] with n >= 1 subintervals the final value is exactly 1 for
\* f(t) = 1 and exactly 1/2 for f(t) = t.
C5_ExactOnConstantAndLinear ==
    (QuadReturned /\ qsteps >= 1 /\ qtMin = R(0) /\ qtMax = R(1)) =>
        /\ qf = "one" => At(values, qsteps) = One
        /\ qf = "id" => At(values, qsteps) = Half

C5_Witness ==
    /\ QuadReturned /\ qf = "id" /\ qsteps = 3
    /\ qtMin = R(0) /\ qtMax = R(1)
    /\ At(values, 3) = Half

\* C6 as stated: a quadrature call with steps < 1 never raises a fault.
C6_NoFaultBelowOneStep ==
    qsteps < 1 => pc # "q_threw"

\* -------------------------------------------------- properties: integrate

IntRunning == pc \in {"i_loop", "i_done"}
IntReturned == pc = "i_done"

\* No call of the stop predicate has returned true.
StopNeverTrue == \A k \in 1..Len(stopCalls) : ~stopCalls[k].result

\* dt added i times, starting from 0.
RECURSIVE DtAddedTimes(_, _)
DtAddedTimes(dt, i) == IF i = 0 THEN Zero ELSE RAdd(DtAddedTimes(dt, i - 1), dt)

\* C7: the trajectory starts as states = [initial], times = [0]; states and
\* times have the same length at every loop point; and a call in which stop
\* is absent or never returns true returns sequences of length steps+1 with
\* times[i] equal to dt added i times.
C7_TrajectoryShape ==
    IntRunning =>
        /\ Len(states) = Len(times)
        /\ states[1] = iopts.initial
        /\ times[1] = Zero
        /\ (IntReturned /\ StopNeverTrue) =>
              /\ Len(states) = iopts.steps + 1
              /\ Len(times) = iopts.steps + 1
              /\ \A i \in 0..iopts.steps : times[i + 1] = DtAddedTimes(iopts.dt, i)

C7_Witness ==
    /\ IntReturned /\ iopts.stop[1] = "never" /\ iopts.steps = 3
    /\ iopts.dt = Half
    /\ times = <<Zero, Half, One, <<3, 2>>>>
    /\ Len(states) = 4

\* Some call of the stop predicate has returned true.
StopReturnedTrue == \E k \in 1..Len(stopCalls) : stopCalls[k].result

\* C8 as stated: whenever stop returns true on some step (steps >= 1), both
\* returned sequences are strictly shorter than steps+1.
C8_AsStated ==
    (IntReturned /\ iopts.steps >= 1 /\ StopReturnedTrue) =>
        /\ Len(states) < iopts.steps + 1
        /\ Len(times) < iopts.steps + 1

\* C8 amended: when stop returns true on step k (1 <= k <= steps) the loop
\* halts right after that step, no further step or stop call is made, and
\* both sequences have length k+1 <= steps+1, strictly shorter than steps+1
\* exactly when k < steps.
C8_StopHaltsLoop ==
    \A k \in 1..Len(stopCalls) :
        stopCalls[k].result =>
            /\ k = Len(stopCalls)
            /\ IntReturned
            /\ k <= iopts.steps
            /\ Len(states) = k + 1
            /\ Len(times) = k + 1
            /\ Len(stepCalls) = k
            /\ (Len(states) < iopts.steps + 1) <=> (k < iopts.steps)

C8_Witness ==
    /\ IntReturned /\ iopts.steps = 4 /\ iopts.stop = <<"tGe", 2>>
    /\ iopts.dt = One
    /\ Len(stopCalls) = 2 /\ stopCalls[2].result /\ ~stopCalls[1].result
    /\ Len(states) = 3 /\ Len(times) = 3

\* C22: the stop predicate is called only after a step has been taken and
\* its state and time appended, with that new state and new time as
\* arguments (call k sees states[k] and times[k] counting the initial entry
\* as 0, so never the initial one); the state on which it returns true is
\* the last element of the trajectory and no step follows it; and a call
\* with steps >= 1 returns at least two entries.
C22_StopAfterStep ==
    IntRunning =>
        /\ Len(stopCalls) <= Len(stepCalls)
        /\ (iopts.stop[1] # "undefined") => Len(stopCalls) = Len(stepCalls)
        /\ \A k \in 1..Len(stopCalls) :
              /\ k + 1 <= Len(states)
              /\ stopCalls[k].state = states[k + 1]
              /\ stopCalls[k].t = times[k + 1]
              /\ stopCalls[k].result =>
                    /\ Len(states) = k + 1
                    /\ Len(stepCalls) = k
                    /\ IntReturned
        /\ (IntReturned /\ iopts.steps >= 1) =>
              (Len(states) >= 2 /\ Len(times) >= 2)

C22_Witness ==
    /\ IntReturned /\ iopts.steps = 3 /\ iopts.stop = <<"tGe", 1>>
    /\ iopts.dt = One /\ iopts.deriv = "ramp" /\ iopts.stepper = "undefined"
    /\ iopts.initial = <<Zero, One>>
    /\ Len(stopCalls) = 1 /\ stopCalls[1].result
    /\ stopCalls[1].state = states[2] /\ stopCalls[1].state # iopts.initial
    /\ stopCalls[1].t = One
    /\ Len(states) = 2

\* The stepper integrate is expected to invoke: the supplied one, or rk4
\* when options.stepper is null or undefined.
ExpectedStepper ==
    IF iopts.stepper = "undefined" \/ iopts.stepper = "null"
    THEN "rk4" ELSE iopts.stepper

\* C9: every loop iteration invokes exactly one stepper, the supplied one,
\* or rk4 if and only if options.stepper is null or undefined, with the
\* arguments (deriv, state before the step, time before the step, dt), and
\* its result is the state appended.
C9_StepperIsStrategy ==
    IntRunning =>
        /\ Len(stepCalls) = Len(states) - 1
        /\ Len(stepCalls) = ii + (IF IntReturned /\ ii < iopts.steps THEN 1 ELSE 0)
        /\ \A k \in 1..Len(stepCalls) :
              /\ stepCalls[k] = [fn |-> ExpectedStepper, deriv |-> iopts.deriv,
                                 state |-> states[k], t |-> times[k],
                                 dt |-> iopts.dt]
              /\ (stepCalls[k].fn = "rk4") <=>
                    (iopts.stepper \in {"undefined", "null"})
              /\ states[k + 1] = ApplyStepper(ExpectedStepper, iopts.deriv,
                                              states[k], times[k], iopts.dt)

C9_Witness ==
    /\ IntReturned /\ iopts.stepper = "euler" /\ iopts.deriv = "harmonic"
    /\ iopts.steps = 2 /\ iopts.dt = One /\ iopts.initial = <<Zero, One>>
    /\ Len(stepCalls) = 2 /\ stepCalls[2].fn = "euler"
    /\ states = <<<<Zero, One>>, <<One, One>>, <<R(2), Zero>>>>

C9_WitnessDefault ==
    /\ IntReturned /\ iopts.stepper = "null" /\ iopts.deriv = "ramp"
    /\ iopts.steps = 2 /\ iopts.dt = One /\ iopts.initial = <<Zero, One>>
    /\ Len(stepCalls) = 2 /\ stepCalls[2].fn = "rk4"
    /\ states[3] = <<R(2), R(3)>>

\* ---------------------------------------------- properties: buildGeometry

GeomReturned == pc = "g_done"

\* C10: with uSegments = U >= 1 and vSegments = V >= 1 the returned geometry
\* holds exactly (U+1)(V+1) vertices, that is 3(U+1)(V+1) position floats in
\* items of 3 and 2(U+1)(V+1) UV floats in items of 2, and exactly 6UV
\* indices, two triangles per grid cell.
C10_VertexAndIndexCounts ==
    (GeomReturned /\ gdom.uSegments >= 1 /\ gdom.vSegments >= 1) =>
        LET U == gdom.uSegments
            V == gdom.vSegments
            n == (U + 1) * (V + 1)
        IN  /\ Len(geometry.position.array) = 3 * n
            /\ geometry.position.itemSize = 3
            /\ Len(geometry.uv.array) = 2 * n
            /\ geometry.uv.itemSize = 2
            /\ Len(geometry.index) = 6 * U * V
            /\ Len(geometry.index) = 2 * 3 * (U * V)

C10_Witness ==
    /\ GeomReturned /\ gdom.uSegments = 3 /\ gdom.vSegments = 2
    /\ Len(geometry.position.array) = 36
    /\ Len(geometry.uv.array) = 24
    /\ Len(geometry.index) = 36

\* C11: while the index loops run and when buildGeometry has returned, the
\* cells already visited are the first ones of the row-major order (row i of
\* the v index outermost, column j of the u index innermost), and the cell
\* number c = i*U + j has put exactly the six indices v0, v2, v1, v1, v2, v3
\* at places 6c+1 .. 6c+6, with v0 = i(U+1)+j, v1 = (i+1)(U+1)+j,
\* v2 = i(U+1)+(j+1), v3 = (i+1)(U+1)+(j+1); nothing else is in the list,
\* and the returned index is that list for all U*V cells.
C11_IndexPattern ==
    (pc \in {"g_indices", "g_done"}) =>
        LET U == gdom.uSegments
            V == gdom.vSegments
            n == gi * U + gj
        IN  /\ Len(indices) = 6 * n
            /\ \A i \in 0..(V - 1), j \in 0..(U - 1) :
                  LET c == i * U + j
                  IN  c < n =>
                        SubSeq(indices, 6 * c + 1, 6 * c + 6) =
                            <<i * (U + 1) + j, i * (U + 1) + (j + 1),
                              (i + 1) * (U + 1) + j, (i + 1) * (U + 1) + j,
                              i * (U + 1) + (j + 1),
                              (i + 1) * (U + 1) + (j + 1)>>
            /\ GeomReturned => (n = U * V /\ geometry.index = indices)

C11_Witness ==
    /\ GeomReturned /\ gdom.uSegments = 2 /\ gdom.vSegments = 3
    /\ SubSeq(geometry.index, 31, 36) = <<7, 8, 10, 10, 8, 11>>

\* The triangles emitted so far, as triples of consecutive indices.
TrianglesEmitted == Len(indices) \div 3
Triangle(k) == SubSeq(indices, 3 * k - 2, 3 * k)

\* C28: for U >= 1 and V >= 1 every index emitted lies in
\* 0 .. (U+1)(V+1)-1, the three indices of each triangle are pairwise
\* distinct, and in the returned geometry every vertex index of that range
\* is referenced by at least one triangle.
C28_IndicesValid ==
    (pc \in {"g_indices", "g_done"} /\ gdom.uSegments >= 1
                                   /\ gdom.vSegments >= 1) =>
        LET n == (gdom.uSegments + 1) * (gdom.vSegments + 1)
        IN  /\ \A k \in 1..Len(indices) : indices[k] \in 0..(n - 1)
            /\ Len(indices) = 3 * TrianglesEmitted
            /\ \A k \in 1..TrianglesEmitted :
                  /\ Triangle(k)[1] # Triangle(k)[2]
                  /\ Triangle(k)[1] # Triangle(k)[3]
                  /\ Triangle(k)[2] # Triangle(k)[3]
            /\ GeomReturned =>
                  /\ geometry.index = indices
                  /\ Len(geometry.position.array) = 3 * n
                  /\ \A v \in 0..(n - 1) :
                        \E k \in 1..Len(geometry.index) : geometry.index[k] = v

C28_Witness ==
    /\ GeomReturned /\ gdom.uSegments = 1 /\ gdom.vSegments = 3
    /\ geometry.index = <<0, 1, 2, 2, 1, 3, 2, 3, 4, 4, 3, 5, 4, 5, 6, 6, 5, 7>>
    /\ Len(geometry.position.array) = 24

\* The grid parameter of index k out of segments between min and max,
\* written out from the formula min + (max - min) * k / segments.
NodeParam(min, max, k, segments) ==
    JSAdd(min, JSMul(JSSub(max, min), JSDiv(R(k), R(segments))))

\* The number of grid nodes the vertex loops have visited.
NodesVisited ==
    IF pc = "g_vertices" THEN gi * (gdom.uSegments + 1) + gj
    ELSE (gdom.uSegments + 1) * (gdom.vSegments + 1)

\* Vertex number k of the arrays is grid node (i, j) with k = i(U+1)+j: the
\* call number k+1 of surface.evaluate had the arguments
\* (uMin + (uMax-uMin)*j/U, vMin + (vMax-vMin)*i/V), the vertex holds the
\* point returned by that call and the UV pair (j/U, i/V).
VertexIsNode(k) ==
    LET U == gdom.uSegments
        V == gdom.vSegments
        i == k \div (U + 1)
        j == k % (U + 1)
        u == NodeParam(gdom.uMin, gdom.uMax, j, U)
        v == NodeParam(gdom.vMin, gdom.vMax, i, V)
        point == SurfaceEvaluate(gsurface, u, v)
    IN  /\ evalCalls[k + 1] = <<u, v>>
        /\ SubSeq(positions, 3 * k + 1, 3 * k + 3) = <<point.x, point.y, point.z>>
        /\ SubSeq(uvs, 2 * k + 1, 2 * k + 2) =
              <<JSDiv(R(j), R(U)), JSDiv(R(i), R(V))>>

\* C12: surface.evaluate is called exactly once per grid node in row-major
\* order (v index i outermost, u index j innermost).  After every iteration
\* of the vertex loops the calls made and the vertices held are as many as
\* the nodes visited and the newest vertex is the node just visited; when
\* buildGeometry has returned, every vertex number i(U+1)+j is node (i, j):
\* it holds evaluate(uMin + (uMax-uMin)*j/U, vMin + (vMax-vMin)*i/V) and the
\* UV pair (j/U, i/V), in which no domain bound occurs, and the returned
\* position and uv attributes are those arrays in Float32Array storage.
C12_EvaluateOncePerNode ==
    (pc \in {"g_vertices", "g_indices", "g_done"}) =>
        LET n == NodesVisited
        IN  /\ Len(evalCalls) = n
            /\ Len(positions) = 3 * n
            /\ Len(uvs) = 2 * n
            /\ n > 0 => VertexIsNode(n - 1)
            /\ GeomReturned =>
                  /\ \A k \in 0..(n - 1) : VertexIsNode(k)
                  /\ geometry.position.array =
                        [m \in 1..(3 * n) |-> ToFloat32(positions[m])]
                  /\ geometry.uv.array =
                        [m \in 1..(2 * n) |-> ToFloat32(uvs[m])]

C12_Witness ==
    /\ GeomReturned /\ gdom.uSegments = 2 /\ gdom.vSegments = 2
    /\ "uMin" \in goptions.given
    /\ gsurface.domain.uMax = One
    /\ Len(evalCalls) = 9
    /\ evalCalls[5] = <<Zero, One>>
    /\ SubSeq(geometry.position.array, 13, 14) = <<Zero, One>>
    /\ SubSeq(geometry.uv.array, 9, 10) = <<Half, Half>>

\* Vertex number k holds, in the returned normal attribute, the value of
\* surface.computeNormal at the grid node of that vertex, each component in
\* Float32Array storage; the call number k+1 of computeNormal had the
\* arguments of the call number k+1 of evaluate.
NormalIsAnalytic(k) ==
    LET U == gdom.uSegments
        V == gdom.vSegments
        u == NodeParam(gdom.uMin, gdom.uMax, k % (U + 1), U)
        v == NodeParam(gdom.vMin, gdom.vMax, k \div (U + 1), V)
        normal == SurfaceComputeNormal(gsurface, u, v)
    IN  /\ normalCalls[k + 1] = <<u, v>>
        /\ normalCalls[k + 1] = evalCalls[k + 1]
        /\ SubSeq(geometry.normal.array, 3 * k + 1, 3 * k + 3) =
              <<ToFloat32(normal.x), ToFloat32(normal.y), ToFloat32(normal.z)>>

\* C13 as stated: when the surface exposes computeNormal the output normals
\* equal the sampled values unchanged.
C13_AsStated ==
    (GeomReturned /\ gsurface.normal # "none") =>
        geometry.normal.array = normals

\* C13: if the surface exposes computeNormal, buildGeometry samples it once
\* per grid node at the same (u, v) as the position, the output normals are
\* those values rounded to single precision (the attribute is a
\* Float32Array) and otherwise unchanged, and computeVertexNormals is not
\* run; if the surface does not expose it, computeNormal is never called
\* and computeVertexNormals is run.  Every call that returns took exactly
\* one of the two paths.
C13_AnalyticOrFallback ==
    /\ (pc \in {"g_vertices", "g_indices", "g_done"}) =>
          Len(normalCalls) = IF gsurface.normal # "none" THEN NodesVisited ELSE 0
    /\ GeomReturned =>
          IF gsurface.normal # "none"
          THEN /\ geometry.normalsFrom = "analytic"
               /\ Len(geometry.normal.array) = 3 * NodesVisited
               /\ \A k \in 0..(NodesVisited - 1) : NormalIsAnalytic(k)
          ELSE /\ geometry.normalsFrom = "computeVertexNormals"
               /\ normalCalls = <<>>
               /\ normals = <<>>

C13_Witness ==
    /\ GeomReturned /\ gsurface.normal = "tilt" /\ gsurface.eval = "saddle"
    /\ gdom.uSegments = 3 /\ gdom.vSegments = 1
    /\ gdom.uMin = Zero /\ gdom.uMax = One
    /\ normalCalls[2] = <<<<1, 3>>, Zero>>
    /\ geometry.normalsFrom = "analytic"
    /\ geometry.normal.array[4] = <<11184811, 33554432>>

C13_WitnessFallback ==
    /\ GeomReturned /\ gsurface.normal = "none"
    /\ geometry.normalsFrom = "computeVertexNormals"
    /\ Len(geometry.normal.array) = 12

\* x*x + y*y + z*z.
SquaredLength(x, y, z) == JSAdd(JSAdd(JSMul(x, x), JSMul(y, y)), JSMul(z, z))

\* The point of vertex k as the vertex loops computed it.
PointOf(k) == SubSeq(positions, 3 * k + 1, 3 * k + 3)

\* The face vector (pC - pB) x (pA - pB) of triangle t of the index list.
FaceVector(t) ==
    LET pA == PointOf(indices[3 * t + 1])
        pB == PointOf(indices[3 * t + 2])
        pC == PointOf(indices[3 * t + 3])
        c == [m \in 1..3 |-> JSSub(pC[m], pB[m])]
        a == [m \in 1..3 |-> JSSub(pA[m], pB[m])]
    IN  <<JSSub(JSMul(c[2], a[3]), JSMul(c[3], a[2])),
          JSSub(JSMul(c[3], a[1]), JSMul(c[1], a[3])),
          JSSub(JSMul(c[1], a[2]), JSMul(c[2], a[1]))>>

\* The sum of the face vectors of the triangles 0 .. t-1 that have vertex k
\* as a corner.
RECURSIVE FaceSum(_, _)
FaceSum(k, t) ==
    IF t = 0 THEN <<Zero, Zero, Zero>>
    ELSE LET rest == FaceSum(k, t - 1)
             face == FaceVector(t - 1)
         IN  IF k \in {indices[3 * t - 2], indices[3 * t - 1], indices[3 * t]}
             THEN [m \in 1..3 |-> JSAdd(rest[m], face[m])]
             ELSE rest

IsDirection(d) ==
    /\ \A m \in 1..3 : IsFinite(d[m])
    /\ \E m \in 1..3 : d[m] # Zero

\* The normal of vertex k in the returned buffer has unit length, up to
\* the rounding of its storage: on the analytic path it is the sampled
\* normal, on the fallback path it is the accumulated sum divided by its
\* length (by 1 when the length is 0).
OutputNormalIsUnit(k) ==
    IF geometry.normalsFrom = "analytic"
    THEN SquaredLength(normals[3 * k + 1], normals[3 * k + 2],
                       normals[3 * k + 3]) = One
    ELSE IsDirection(SubSeq(geometry.normal.array, 3 * k + 1, 3 * k + 3))

C14_WitnessAnalytic ==
    /\ GeomReturned /\ gsurface.normal = "tilt"
    /\ gdom.uSegments = 1 /\ gdom.vSegments = 1
    /\ OutputNormalIsUnit(0) /\ ~OutputNormalIsUnit(3)

\* The surface of the call in progress is malformed input: it has no
\* evaluate function, or its domain has a bound that is not finite.
MalformedSurface ==
    /\ pc \in {"g_vertices", "g_indices", "g_done", "g_threw"}
    /\ (EvaluateThrows(gsurface) \/ HasNonFiniteBound(gsurface.domain))

\* C15: on malformed input buildGeometry raises an error at once: it
\* evaluates no node, fills no buffer and returns no geometry.
C15_MalformedRaises ==
    MalformedSurface =>
        /\ pc \in {"g_vertices", "g_threw"}
        /\ evalCalls = <<>>
        /\ positions = <<>>
        /\ geometry = NoGeometry

\* A geometry returned for a domain with a non-finite bound: its position
\* buffer holds NaN and Infinity.
C15_NonFiniteReturned ==
    /\ GeomReturned /\ HasNonFiniteBound(gsurface.domain)
    /\ gdom.uSegments = 1 /\ gdom.vSegments = 1
    /\ geometry.position.array[1] = NaN
    /\ geometry.position.array[4] = Infinity

\* A surface without evaluate: the call has thrown before any node.
C15_MissingEvaluateThrew ==
    /\ pc = "g_threw" /\ EvaluateThrows(gsurface)
    /\ evalCalls = <<>> /\ geometry = NoGeometry

\* The step-by-step run of buildGeometry and its one-step form return the
\* same geometry (checked on the grids with explicit segment counts).
StepwiseAgreesWithOneStep ==
    (GeomReturned /\ goptions.given # {}) =>
        BuildGeometry(gsurface, goptions) = [threw |-> FALSE, geometry |-> geometry]

\* --------------------------------------------- properties: termination

CallBegun == pc # "idle"
CallEnded == pc \in {"q_done", "q_threw", "i_done", "g_done", "g_threw"}

\* The loop iterations the counts of the call in progress allow.
LoopIterationsBounded ==
    /\ (pc \in {"q_loop", "q_done"}) =>
          /\ qiters <= (IF qsteps >= 0 THEN qsteps ELSE 0)
          /\ (QuadReturned /\ qsteps >= 0) => qiters = qsteps
    /\ IntRunning =>
          /\ Len(stepCalls) <= iopts.steps
          /\ (IntReturned /\ StopNeverTrue) => Len(stepCalls) = iopts.steps
          /\ (IntReturned /\ StopReturnedTrue /\ Len(stepCalls) < iopts.steps) =>
                stopCalls[Len(stopCalls)].result
    /\ (pc \in {"g_vertices", "g_indices", "g_done", "g_threw"}) =>
          LET U == gdom.uSegments
              V == gdom.vSegments
          IN  /\ Len(evalCalls) <= (U + 1) * (V + 1)
              /\ Len(indices) <= 6 * U * V
              /\ (pc \in {"g_indices", "g_done"}) =>
                    Len(evalCalls) = (U + 1) * (V + 1)
              /\ GeomReturned => Len(indices) = 6 * (U * V)

\* C25: every call of quadrature, integrate and buildGeometry ends, by a
\* return or by a throw, without any step of another party; a returned
\* quadrature has run exactly steps loop iterations, integrate at most steps
\* (exactly steps when stop never fired), and a returned buildGeometry
\* exactly (U+1)(V+1) vertex iterations and U*V cell iterations of six
\* indices each.
C25_Terminates == [](LoopIterationsBounded) /\ (CallBegun ~> CallEnded)

C25_Witness ==
    /\ IntReturned /\ iopts.steps = 4 /\ iopts.stop = <<"tGe", 3>>
    /\ iopts.dt = One /\ Len(stepCalls) = 3

C25_WitnessQuadrature == QuadReturned /\ qsteps = 4 /\ qiters = 4

C25_WitnessGeometry ==
    /\ GeomReturned /\ gdom.uSegments = 3 /\ gdom.vSegments = 2
    /\ Len(evalCalls) = 12 /\ Len(indices) = 36

\* ---------------------------------------------------- properties: the scene

\* No handler is running.
Handled == pc = "idle"

SameInputs(b1, b2) ==
    /\ b1.curve = b2.curve
    /\ b1.uSegments = b2.uSegments
    /\ b1.vSegments = b2.vSegments

\* C16: tessellation is deterministic.  Any two completed builds of the
\* mesh with the same curve (points, closed, type, tension) and the same
\* segment counts left the mesh with identical position, normal, uv and
\* index arrays, whatever ran between them: other builds, Slider
\* constructions, updatePoints calls, queries, disposals.
C16_Deterministic ==
    \A b1 \in builds : \A b2 \in builds :
        SameInputs(b1, b2) => b1.geometry = b2.geometry

\* Two builds of the same inputs with a build of another point sequence
\* between them, after a Slider was made.
C16_Witness ==
    /\ sliders >= 1
    /\ \E b1 \in builds : \E b2 \in builds : \E b3 \in builds :
          /\ b1.id < b3.id /\ b3.id < b2.id
          /\ SameInputs(b1, b2)
          /\ b3.curve.points # b1.curve.points
          /\ b3.geometry # b1.geometry
          /\ Len(b1.geometry.position.array) > 0

QueryServed ==
    /\ last.op \in {"evaluate", "computeTangent"}
    /\ ~last.threw

\* C17: whenever the curve can serve a query, its arc-length cache is
\* either not computed yet (after the constructor, which installs the
\* points and leaves the cache to the first getLengths call) or the one
\* computed from the points the curve holds, and needsUpdate is clear.
\* When updatePoints returns, the curve holds the new points and the cache
\* computed from them.
C17_CacheConsistent ==
    /\ (stage # "none" /\ ~GetPointThrows(profileCurve)) =>
          /\ profileCurve.cacheArcLengths \in {<<>>, <<profileCurve.points>>}
          /\ ~profileCurve.needsUpdate
    /\ QueryServed => ~GetPointThrows(profileCurve)
    /\ last.op = "updatePoints" => profileCurve.points = last.arg
    /\ (last.op = "updatePoints" /\ ~last.threw) =>
          profileCurve.cacheArcLengths = <<last.arg>>

\* A query served after an updatePoints rebuilt the cache.
C17_Witness ==
    /\ QueryServed
    /\ profileCurve.cacheArcLengths = <<profileCurve.points>>
    /\ Len(profileCurve.points) = 3

FirstPoint == profileCurve.points[1]
LastPoint == profileCurve.points[Len(profileCurve.points)]

EndpointQuery == last.op = "evaluate" /\ last.arg \in {Zero, One}

\* C18 as stated: for any point sequence the curve holds, evaluate(0) is
\* the first point and evaluate(1) the last.
C18_AsStated ==
    EndpointQuery =>
        /\ ~last.threw
        /\ last.arg = Zero => last.result = FirstPoint
        /\ last.arg = One => last.result = LastPoint

\* C18: for an open curve holding at least two points, evaluate(0) is the
\* first point and evaluate(1) the last (the segment polynomial taken
\* exactly); a closed curve holding a point returns its first point at
\* both, and otherwise evaluate throws.  updatePoints(q) makes q the
\* points held, on the one curve object ever constructed, and a build of
\* the mesh that completes afterwards starts at the first point held.
C18_Endpoints ==
    /\ (EndpointQuery /\ ~profileCurve.closed /\ Len(profileCurve.points) >= 2) =>
          /\ ~last.threw
          /\ last.arg = Zero => last.result = FirstPoint
          /\ last.arg = One => last.result = LastPoint
    /\ (EndpointQuery /\ profileCurve.closed /\ Len(profileCurve.points) >= 1) =>
          /\ ~last.threw
          /\ last.result = FirstPoint
    /\ (EndpointQuery /\ ~profileCurve.closed /\ Len(profileCurve.points) < 2) =>
          last.threw
    /\ last.op = "updatePoints" =>
          /\ profileCurve.points = last.arg
          /\ curvesCreated = 1
    /\ stage # "none" => curvesCreated = 1
    /\ (Handled /\ last.op \in {"new SurfaceMesh", "rebuild"} /\ ~last.threw) =>
          /\ buffers.position.array[1] = ToFloat32(FirstPoint.x)
          /\ buffers.position.array[2] = ToFloat32(FirstPoint.y)
          /\ buffers.position.array[3] = Zero

\* evaluate(1) of an open curve returned the last of three points that an
\* updatePoints installed, the mesh built.
C18_Witness ==
    /\ last.op = "evaluate" /\ last.arg = One /\ ~last.threw
    /\ ~profileCurve.closed
    /\ Len(profileCurve.points) = 3
    /\ profileCurve.cacheArcLengths = <<profileCurve.points>>
    /\ last.result = LastPoint
    /\ last.result # FirstPoint
    /\ stage = "mesh"

\* The mesh rebuilt after an updatePoints changed the first point: its
\* first vertex is the new first point.
C18_WitnessAdapter ==
    /\ pc = "idle" /\ last.op = "rebuild" /\ ~last.threw
    /\ \E b \in builds : b.geometry.position.array[1] # buffers.position.array[1]
    /\ buffers.position.array[1] = ToFloat32(FirstPoint.x)

Live == {i \in 1..Len(geometries) : ~geometries[i].disposed}

BuildCompleted ==
    Handled /\ last.op \in {"new SurfaceMesh", "rebuild"} /\ ~last.threw

Reference == BuildGeometry(SurfaceOf(profileCurve), StoredOptions(mesh))

\* C20 as stated: after any rebuild the mesh holds exactly one geometry
\* that is not disposed.
C20_AsStated ==
    (Handled /\ last.op = "rebuild") => Live = {mesh.geometry}

\* C20: every rebuild that returns has disposed the geometry held before
\* it and installed the one buildGeometry made from the surface, as the
\* curve is at that moment, with the stored segment counts: the arrays
\* held are exactly that call's output, the geometry held is the newest
\* and the only one not disposed.  A rebuild in which buildGeometry throws
\* has disposed the geometry held and leaves the mesh holding it, with the
\* arrays of the build that made it.  In every state no geometry but the
\* one held is live and the arrays held are those of the build that made
\* it.
C20_RebuildFresh ==
    /\ BuildCompleted =>
          /\ mesh.geometry = Len(geometries)
          /\ Live = {mesh.geometry}
          /\ ~Reference.threw
          /\ buffers = Reference.geometry
    /\ (Handled /\ last.op = "rebuild" /\ last.threw) =>
          /\ Live = {}
          /\ Reference.threw
    /\ stage = "mesh" =>
          /\ Live \subseteq {mesh.geometry}
          /\ \E b \in builds : b.id = mesh.geometry /\ b.geometry = buffers
          /\ \A b \in builds : b.uSegments = mesh.uSegments
                                 /\ b.vSegments = mesh.vSegments

\* A second rebuild returned after the points changed: its arrays differ
\* from those of an earlier build, and two geometries lie disposed.
C20_Witness ==
    /\ Handled /\ last.op = "rebuild" /\ ~last.threw
    /\ Len(geometries) >= 3
    /\ Live = {Len(geometries)}
    /\ \E b \in builds : b.id < mesh.geometry /\ b.geometry # buffers

\* --------------------------------------------- properties: solveProfile

ProfileReturned == pc = "p_done" /\ qf = "trumpet"

\* The sample index of the point at (0-based) index j of the profile.
SampleOf(j) == Abs(j - ProfileSteps)

\* C19: solveProfile(a), which runs quadrature on N = ProfileSteps
\* subintervals, returns exactly 2N+1 points.  The point at index j comes
\* from sample |j - N| (r = a cosh(ts), h = -values below the midpoint and
\* +values from it on), so the s = 0 sample appears once, at index N, with
\* r = a and h = 0; the points at N-k and N+k have equal r and negated h;
\* and no r is smaller than the midpoint's.
C19_SymmetricProfile ==
    ProfileReturned =>
        /\ Len(profile) = 2 * ProfileSteps + 1
        /\ \A j \in 0..(Len(profile) - 1) :
              /\ At(profile, j).x = RMul(pa, Cosh(At(ts, SampleOf(j))))
              /\ At(profile, j).y =
                    IF j < ProfileSteps THEN RNeg(At(values, SampleOf(j)))
                    ELSE At(values, SampleOf(j))
              /\ At(profile, j).z = Zero
        /\ At(ts, 0) = Zero
        /\ At(profile, ProfileSteps).x = pa
        /\ At(profile, ProfileSteps).y = Zero
        /\ \A k \in 0..ProfileSteps :
              /\ At(profile, ProfileSteps - k).x = At(profile, ProfileSteps + k).x
              /\ At(profile, ProfileSteps - k).y =
                    RNeg(At(profile, ProfileSteps + k).y)
        /\ \A j \in 0..(Len(profile) - 1) :
              RLe(At(profile, ProfileSteps).x, At(profile, j).x)

\* solveProfile(0.5) returned: the ends lie farther from the axis than the
\* waist, one below and one above it.
C19_Witness ==
    /\ ProfileReturned /\ pa = Half
    /\ Len(profile) = 2 * ProfileSteps + 1
    /\ RLt(pa, At(profile, 0).x)
    /\ RLt(At(profile, 0).y, Zero)
    /\ RLt(Zero, At(profile, 2 * ProfileSteps).y)

\* ----------------------------------- properties: the positive-curvature solvers

\* A K = +1 solver has returned: the quadrature-based one (the spindle demos)
\* or the one built on integrate (the spindle-slider demo).
SpindleQuadratureReturned == pc = "p_done" /\ qf \in {"spindle", "spindleBasic"}
SpindleOdeReturned == pc = "p_done" /\ iopts.deriv = "spindle"

\* The values of s the returned profile was sampled at, first and last.
SampledFrom == IF SpindleOdeReturned THEN times[1] ELSE At(ts, 0)
SampledTo == IF SpindleOdeReturned THEN times[Len(times)] ELSE At(ts, qsteps)

\* The domain the README gives for the parameter a: [0, pi] for a <= 1 and
\* [arccos(1/a), pi - arccos(1/a)] for a > 1.
DomainFrom(a) == IF RLe(a, One) THEN Zero ELSE Acos(JSDiv(One, a))
DomainTo(a) == RSub(MathPI, DomainFrom(a))

\* C23: every K = +1 profile solver, quadrature-based or built on integrate,
\* samples the profile over [arccos(1/a), pi - arccos(1/a)] when a > 1 and
\* over [0, pi] when a <= 1.
C23_SamplesDomain ==
    (SpindleQuadratureReturned \/ SpindleOdeReturned) =>
        /\ SampledFrom = DomainFrom(pa)
        /\ SampledTo = DomainTo(pa)

\* The quadrature-based solvers do sample that domain, in steps of equal
\* length.
C23_QuadratureSamplesDomain ==
    SpindleQuadratureReturned =>
        /\ SampledFrom = DomainFrom(pa)
        /\ SampledTo = DomainTo(pa)
        /\ Len(profile) = SpindleSteps + 1

\* The solver built on integrate, called with a = 2, has sampled [0, pi]: its
\* first point lies on the axis, where the barrel has no point.
C23_OdeSampledWholeInterval ==
    /\ SpindleOdeReturned /\ pa = R(2)
    /\ SampledFrom = Zero /\ SampledTo = MathPI
    /\ DomainFrom(pa) = One
    /\ profile[1].x = Zero
    /\ Len(profile) = OdeSteps + 1

\* The quadrature-based solver called with a = 2.
C23_BarrelByQuadrature ==
    /\ SpindleQuadratureReturned /\ pa = R(2)
    /\ SampledFrom = One /\ SampledTo = RSub(MathPI, One)
    /\ RLt(Zero, profile[1].x)

\* ------------------------------------------- properties: the radicands

\* A profile solver is inside quadrature or back from it, or inside
\* integrate or back from it.
SolverInQuadrature == pc \in {"q_loop", "q_done"} /\ qf \in ProfileIntegrands
SolverInIntegrate == pc \in {"i_loop", "i_done"} /\ iopts.deriv = "spindle"

\* The latest sample the integrand was evaluated at, its radicand, and what
\* the integrand handed to Math.sqrt there.
LatestSample == At(ts, qi - 1)
LatestRadicand == Radicand(qf, pa, LatestSample)
LatestSqrtArgument == SqrtArgument(qf, pa, LatestSample)

\* C24 as stated: in every solver, spindle basic included, the value handed
\* to Math.sqrt has gone through Math.max(0, .).
C24_AsStated ==
    /\ SolverInQuadrature =>
          (IntegrandClamps(qf) /\ LatestSqrtArgument = MathMax0(LatestRadicand))
    /\ SolverInIntegrate => OdeSqrtArgument(istate) =
                               MathMax0(RSub(One, RMul(istate[2], istate[2])))

\* C24 amended: every solver but spindle basic hands Math.max(0, radicand)
\* to Math.sqrt; spindle basic hands it the bare radicand, which for its
\* fixed a = 0.5 is at least 3/4.  So no solver passes a negative value to
\* Math.sqrt for any parameter, and no integrand value or height is NaN.
C24_NoNegativeSqrt ==
    /\ SolverInQuadrature =>
          /\ ~RLt(LatestSqrtArgument, Zero)
          /\ prev = MathSqrt(LatestSqrtArgument)
          /\ prev # NaN
          /\ IF qf = "spindleBasic"
             THEN /\ pa = Half
                  /\ LatestSqrtArgument = LatestRadicand
                  /\ RLe(<<3, 4>>, LatestRadicand)
             ELSE LatestSqrtArgument = MathMax0(LatestRadicand)
    /\ SolverInIntegrate =>
          /\ ~RLt(OdeSqrtArgument(istate), Zero)
          /\ istate[3] # NaN
          /\ ~RLt(istate[3], Zero)

\* The barrel solver at its first sample, where the radicand on the grid
\* is below zero and the clamp makes it zero.
C24_Witness ==
    /\ SolverInQuadrature /\ qf = "spindle" /\ pa = <<3, 2>> /\ qi = 1
    /\ RLt(LatestRadicand, Zero)
    /\ LatestSqrtArgument = Zero
    /\ prev = Zero

\* Spindle basic at its last sample, s = pi: the bare radicand 3/4.
C24_WitnessBasic ==
    /\ pc = "q_done" /\ qf = "spindleBasic" /\ pa = Half
    /\ LatestSample = MathPI
    /\ LatestSqrtArgument = <<3, 4>>

\* The solver built on integrate with a = 2 at s = 0, where 1 - r'^2 = -3.
C24_WitnessOde ==
    /\ SolverInIntegrate /\ pa = R(2) /\ ii = 0
    /\ istate = <<Zero, R(2), Zero>>
    /\ OdeSqrtArgument(istate) = Zero

\* ----------------------------------------------- properties: the Slider

\* An input event has been handled: the listener wrote to the page.
InputHandled ==
    \/ domLog' # domLog
    \/ Len(sliderEls') = Len(sliderEls) /\ sliderEls' # sliderEls

\* What the listener of slider k does with the string the input holds:
\* one label write of the formatted parsed value, then one onChange call
\* with the parsed value, and nothing else.
ListenerRan(k) ==
    LET v == ParseFloat(sliderEls'[k].value)
        n == Len(domLog)
    IN  /\ Len(domLog') = n + 2
        /\ SubSeq(domLog', 1, n) = domLog
        /\ sliderEls'[k].labelText = Format(sliderEls[k], v)
        /\ domLog'[n + 1] = [slider |-> k, kind |-> "label",
                             value |-> sliderEls'[k].labelText]
        /\ domLog'[n + 2] = [slider |-> k, kind |-> "onChange", value |-> v]
        /\ \A other \in 1..Len(sliderEls) :
              other # k => sliderEls'[other] = sliderEls[other]

\* C27: once one or more Sliders have been constructed, exactly one style
\* element has been appended to the document head; every input event on a
\* slider writes its label text and then calls onChange exactly once, with
\* the number parseFloat makes of the input's value.
C27_StylesOnceListenerOnce ==
    /\ [](sliders >= 1 => styleElements = 1 /\ stylesInjected)
    /\ [][InputHandled =>
            /\ Len(sliderEls') = Len(sliderEls)
            /\ \E k \in 1..Len(sliderEls) : ListenerRan(k)]_vars

\* Two Sliders have been constructed and each has had an input event, the
\* second one for the string "0.12".
C27_Witness ==
    /\ sliders = 2 /\ styleElements = 1
    /\ Len(domLog) = 4
    /\ domLog[2].slider # domLog[4].slider
    /\ domLog[4].value = <<3, 25>>
    /\ domLog[3].value = <<"a", " = ", "0", ".", "1", "2">>

\* -------------------------------------------- properties: the pipeline

\* The parameter of the latest event: the value the listener passed to
\* setA, or the module's initial value before any input event.
LatestA ==
    IF domLog = <<>> THEN InitialA(demo) ELSE domLog[Len(domLog)].value

\* The curve holds the points solveProfile returned for pa.
CurveHoldsProfile == profileCurve.points = profile

\* The build in progress, or the last one completed, was given the surface
\* of the curve as it is now.
BuiltFromCurve == gsurface.curve = CurveShape(profileCurve)

\* The mesh holds the geometry of the last build, whose first vertex is
\* the first point of the profile (u = 0, v = 0) as a Float32 triple.
MeshHoldsBuild ==
    /\ buffers = geometry
    /\ \E b \in builds :
          /\ b.id = mesh.geometry
          /\ b.geometry = buffers
          /\ b.curve.points = profile
    /\ buffers.position.array[1] = ToFloat32(profile[1].x)
    /\ buffers.position.array[2] = ToFloat32(profile[1].y)
    /\ ~geometries[mesh.geometry].disposed

BuildRunning == pc \in {"g_vertices", "g_indices", "g_done"}

\* C21: an input event runs solveProfile, then updatePoints, then rebuild,
\* with nothing in between: when updatePoints has run the curve holds the
\* profile of the latest parameter; a build only runs on a curve that
\* holds it; and once the event is complete the mesh geometry is the one
\* tessellated from that curve.
C21_PipelineInOrder ==
    demo \in SliderDemos =>
        /\ pc = "a_updated" => pa = LatestA /\ CurveHoldsProfile
        /\ BuildRunning => pa = LatestA /\ CurveHoldsProfile /\ BuiltFromCurve
        /\ (pc = "idle" /\ loaded) =>
              /\ pa = LatestA
              /\ CurveHoldsProfile
              /\ BuiltFromCurve
              /\ MeshHoldsBuild

\* Two input events with different values have completed in the
\* hyperbolic-slider demo; the last one was for a = 2.
C21_Witness ==
    /\ demo = "hyperbolic-slider" /\ loaded /\ pc = "idle"
    /\ Len(domLog) = 4
    /\ domLog[2].value = Half /\ domLog[4].value = R(2)
    /\ pa = R(2)
    /\ Len(geometries) = 4

\* The pseudosphere demo has completed an input event.
C21_WitnessPseudosphere ==
    /\ demo = "pseudosphere-slider" /\ loaded /\ pc = "idle"
    /\ Len(domLog) = 2 /\ pa = Half

\* The demos whose setA writes shader uniforms, and the uniform values
\* that belong to the parameter a.
UniformDemos == {"hyperbolic-slider-tiling", "spindle-slider"}
UniformsFor(d, a) ==
    IF d = "hyperbolic-slider-tiling"
    THEN [NoUniforms EXCEPT !.uA = a, !.uSMax = Asinh(JSDiv(One, a))]
    ELSE [NoUniforms EXCEPT !.a = a]

\* C29: after the initial build and after every completed setA(a), the
\* uniforms (a, or uA with uSMax = asinh(1 / a)) are those of the parameter
\* whose profile the curve holds and the mesh geometry was tessellated
\* from.
C29_UniformsMatchGeometry ==
    (demo \in UniformDemos /\ pc = "idle" /\ stage = "mesh") =>
        /\ uniforms = UniformsFor(demo, pa)
        /\ CurveHoldsProfile
        /\ BuiltFromCurve
        /\ MeshHoldsBuild

\* The tiling demo has completed setA(2) after its initial build.
C29_Witness ==
    /\ demo = "hyperbolic-slider-tiling" /\ loaded /\ pc = "idle"
    /\ Len(geometries) >= 3
    /\ uniforms.uA = R(2)
    /\ uniforms.uSMax = Asinh(Half)

\* The spindle-slider demo has completed setA(2).
C29_WitnessSpindle ==
    /\ demo = "spindle-slider" /\ loaded /\ pc = "idle"
    /\ Len(geometries) >= 3
    /\ uniforms.a = R(2)

\* C26 as stated: once spindle-eastern-hemi has loaded, the profile the
\* curve holds was solved for a = imgWidth / (2 imgHeight) and the uniform
\* a carries that value.
C26_CarriesTextureValue ==
    (demo = "spindle-eastern-hemi" /\ loaded) =>
        /\ aConst = TextureA
        /\ pa = aConst
        /\ CurveHoldsProfile
        /\ uniforms.a = aConst

\* What the module does instead: the profile and the uniform are those of
\* the literal 0.5.
C26_CarriesHalf ==
    (demo = "spindle-eastern-hemi" /\ loaded) =>
        /\ aConst = TextureA
        /\ pa = Half
        /\ CurveHoldsProfile
        /\ uniforms.a = Half

C26_Loaded == demo = "spindle-eastern-hemi" /\ loaded /\ stage = "mesh"

====
